---- MODULE Spec2Model ----
(***************************************************************************)
(* Othello core of rust-gui (gtk-examples/othello): the undo-log flip      *)
(* algorithm of board.rs and the cached game tree of engine.rs.            *)
(***************************************************************************)
EXTENDS Integers, Sequences, FiniteSets, TLC

VARIABLES board, lboard, last, nodes, current, status, is_over,
          states, game_current, game_status, pc, call, trail, runs, net

vars == <<board, lboard, last, nodes, current, status, is_over,
          states, game_current, game_status, pc, call, trail, runs, net>>

boardVars == <<board, lboard, last>>
engineVars == <<nodes, current, status, is_over>>
gameVars == <<states, game_current, game_status, pc>>

\* what is remembered of the run: the last call made on the Engine or the
\* Game, the calls since the latest accepted placement, how often the
\* children of each node were computed, and the placements and passes of
\* the Engine that were accepted and not undone since the last Init
histVars == <<call, trail, runs, net>>

(***************************************************************************)
(* Bounds                                                                  *)
(***************************************************************************)
\* a caller of Board::try_move plays on from a returned board while it holds
\* at most this many disks
MaxDisks == 6

\* the calls (Undo) a Move of the Engine is followed through
MoveTrail == 1

\* the calls (prepare, undo) a place of the Game is followed through
PlaceTrail == 3

\* the count of the expansions of a node stops here
MaxRuns == 2

\* arguments of the constructors and offsets of position.rs are drawn from
\* up to this far outside the valid range
MaxOver == 2

\* flip is called at most this often between two calls of abort or commit
MaxFlips == 3

\* prepare is called at most this often between two accepted placements
MaxPrepares == 2

(***************************************************************************)
(* position.rs                                                             *)
(***************************************************************************)
BoardSize == 8

None == "None"

\* An Option or Result is <<>> for None / Err and <<v>> for Some(v) / Ok(v).

\* impl Add<i32> for Column: None when the index leaves 0..7
ColumnAdd(index, rhs) ==
    LET i == index + rhs
    IN  IF i < 0 \/ BoardSize <= i THEN <<>> ELSE <<i>>

\* impl Add<i32> for Row: None when the index leaves 0..7
RowAdd(index, rhs) ==
    LET i == index + rhs
    IN  IF i < 0 \/ BoardSize <= i THEN <<>> ELSE <<i>>

\* the value of a call that panicked with the message msg
Panic(msg) == [panic |-> msg]

\* a char is given by its code point: b'a' and b'h'
Char_a == 97
Char_h == 104

\* Column::new that takes any character
Column_new_unchecked(index) == [index |-> (index % 256) - Char_a]

\* Column::new: a Column is [index |-> 0..7]
Column_new(index) ==
    IF index < Char_a \/ Char_h < index
    THEN Panic("index out of bounds for Column")
    ELSE [index |-> (index % 256) - Char_a]

\* Column::index
Column_index(col) == col.index

\* impl PartialEq for Column
Column_eq(a, b) == a.index = b.index

\* Row::new that keeps the number given
Row_new_raw(index) ==
    IF index < 1 \/ 8 < index
    THEN Panic("index out of bounds for Row")
    ELSE [index |-> index]

\* Row::new: a Row is [index |-> 0..7]
Row_new(index) ==
    IF index < 1 \/ 8 < index
    THEN Panic("index out of bounds for Row")
    ELSE [index |-> index - 1]

\* Row::index
Row_index(row) == row.index

\* impl PartialEq for Row
Row_eq(a, b) == a.index = b.index

MaxI32 == 2147483647
MinI32 == -MaxI32 - 1

\* a + b on i32: <<sum>>, and when the sum leaves the i32 range <<>> (the
\* panic of a build with overflow checks) or <<the sum wrapped round>>
add_i32(a, b, overflow_checks) ==
    IF b > 0 /\ a > MaxI32 - b
    THEN IF overflow_checks THEN <<>> ELSE <<(a + MinI32) + (b + MinI32)>>
    ELSE IF b < 0 /\ a < MinI32 - b
         THEN IF overflow_checks
              THEN <<>>
              ELSE <<(a - MinI32) + (b - MinI32)>>
         ELSE <<a + b>>

\* the Option a call returned: <<>> for None, <<v>> for Some(v)
Returned(option) == [option |-> option]

\* col + rhs (impl Add<i32> for Column) in a build with or without overflow
\* checks: a panic, or the Option returned
Column_add(col, rhs, overflow_checks) ==
    LET index == add_i32(col.index, rhs, overflow_checks)
    IN  IF index = <<>>
        THEN Panic("attempt to add with overflow")
        ELSE LET r == ColumnAdd(0, index[1])
             IN  IF r = <<>>
                 THEN Returned(<<>>)
                 ELSE Returned(<<[index |-> r[1]]>>)

\* row + rhs (impl Add<i32> for Row)
Row_add(row, rhs, overflow_checks) ==
    LET index == add_i32(row.index, rhs, overflow_checks)
    IN  IF index = <<>>
        THEN Panic("attempt to add with overflow")
        ELSE LET r == RowAdd(0, index[1])
             IN  IF r = <<>>
                 THEN Returned(<<>>)
                 ELSE Returned(<<[index |-> r[1]]>>)

\* a call has panicked
Panicked(v) == "panic" \in DOMAIN v

\* Position::new: the column is built first
Position_new(col, row) ==
    LET c == Column_new(col)
    IN  IF Panicked(c)
        THEN c
        ELSE LET r == Row_new(row)
             IN  IF Panicked(r) THEN r ELSE [col |-> c, row |-> r]

\* Position::coordinate
Position_coordinate(pos) == <<pos.col, pos.row>>

\* impl From<(Column, Row)> for Position
Position_from_pair(col, row) == [col |-> col, row |-> row]

\* impl PartialEq for Position
Position_eq(a, b) == Column_eq(a.col, b.col) /\ Row_eq(a.row, b.row)

\* a Coordinate is <<column index, row index>>, both in 0..7
Coords == (0 .. BoardSize - 1) \X (0 .. BoardSize - 1)

\* Coordinate::new(col, row) with col a letter a..h given by its position
\* 1..8 in the alphabet and row 1..8
Coordinate_new(col, row) == <<col - 1, row - 1>>

\* coord + (dx, dy): Err when either component leaves the board
CoordAdd(coord, dx, dy) ==
    LET c == ColumnAdd(coord[1], dx)
        r == RowAdd(coord[2], dy)
    IN  IF c = <<>> \/ r = <<>> THEN <<>> ELSE << <<c[1], r[1]>> >>

(***************************************************************************)
(* board.rs                                                                *)
(***************************************************************************)
Black == "Black"
White == "White"
Disk == {Black, White}

\* flip_disk that gives the disk back as it is
flip_disk_same(disk) == disk

flip_disk(disk) == IF disk = Black THEN White ELSE Black

\* enum Side (engine.rs, lib.rs)
Dark == "Dark"
Light == "Light"
Side == {Dark, Light}

\* Board::new: `disks` maps the occupied cells to their disk (no cell yet),
\* `stack` holds the provisional flips
Board_new == [disks |-> <<>>, stack |-> <<>>]

\* Board::get_disk: None for a cell without a disk
get_disk(b, coord) ==
    IF coord \in DOMAIN b.disks THEN b.disks[coord] ELSE None

\* Board::place: panics on an occupied cell
place(b, coord, disk) ==
    IF coord \in DOMAIN b.disks
    THEN "panic"
    ELSE [b EXCEPT !.disks = (coord :> disk) @@ @]

\* HashMap::insert as Board::place calls it: the disk is stored at coord,
\* in place of the disk that was there, before place looks at what insert
\* returned
insert(b, coord, disk) == [b EXCEPT !.disks = (coord :> disk) @@ @]

\* Board::flip: turns the disk at coord and pushes coord on the stack
flip(b, coord) ==
    IF coord \notin DOMAIN b.disks
    THEN "panic"
    ELSE [disks |-> [b.disks EXCEPT ![coord] = flip_disk(@)],
          stack |-> Append(b.stack, coord)]

\* undo_flip that pops the latest provisional flip and leaves the disk as
\* it is
undo_flip_pop(b) == [b EXCEPT !.stack = SubSeq(b.stack, 1, Len(b.stack) - 1)]

\* Board::undo_flip: pops the latest provisional flip and turns it back
undo_flip(b) ==
    LET coord == b.stack[Len(b.stack)]
    IN  [disks |-> [b.disks EXCEPT ![coord] = flip_disk(@)],
         stack |-> SubSeq(b.stack, 1, Len(b.stack) - 1)]

\* abort that forgets the provisional flips without turning them back
abort_keep(b) == [b EXCEPT !.stack = <<>>]

\* Board::abort: undoes provisional flips until the stack is empty
RECURSIVE abort(_)
abort(b) == IF b.stack = <<>> THEN b ELSE abort(undo_flip(b))

\* commit that counts the committed ray instead of its disks
commit_rays(b) ==
    [board |-> [b EXCEPT !.stack = <<>>],
     n |-> IF Len(b.stack) > 0 THEN 1 ELSE 0]

\* Board::commit: keeps the flips, clears the stack, returns its size
commit(b) == [board |-> [b EXCEPT !.stack = <<>>], n |-> Len(b.stack)]

\* init that places the four disks without clearing the board first
Board_init_noclear(b) ==
    [disks |-> (Coordinate_new(4, 5) :> Black) @@ (Coordinate_new(5, 4) :> Black)
                 @@ (Coordinate_new(4, 4) :> White)
                 @@ (Coordinate_new(5, 5) :> White) @@ b.disks,
     stack |-> b.stack]

\* Board::init
Board_init(b) ==
    LET b0 == [disks |-> <<>>, stack |-> <<>>]
        b1 == place(b0, Coordinate_new(4, 5), Black)
        b2 == place(b1, Coordinate_new(5, 4), Black)
        b3 == place(b2, Coordinate_new(4, 4), White)
    IN  place(b3, Coordinate_new(5, 5), White)

\* the directions with (-1, 0) left out
Dirs_nowest == << <<-1, -1>>, <<-1, 1>>, <<0, -1>>,
                  <<0, 1>>, <<1, -1>>, <<1, 0>>, <<1, 1>> >>

\* the 8 directions in the order of the loops `for dx in -1..=1`,
\* `for dy in -1..=1`, (0, 0) skipped
Dirs == << <<-1, -1>>, <<-1, 0>>, <<-1, 1>>, <<0, -1>>,
           <<0, 1>>, <<1, -1>>, <<1, 0>>, <<1, 1>> >>

\* scan that commits when it runs off the board
RECURSIVE ScanDir_commit_at_edge(_, _, _, _, _, _)
ScanDir_commit_at_edge(b, coord, d, offset, cur, opp) ==
    LET c == CoordAdd(coord, d[1] * offset, d[2] * offset)
    IN  IF c = <<>> \/ get_disk(b, c[1]) = cur
        THEN commit(b)
        ELSE IF get_disk(b, c[1]) = opp
        THEN ScanDir_commit_at_edge(flip(b, c[1]), coord, d, offset + 1,
                                    cur, opp)
        ELSE [board |-> abort(b), n |-> 0]

\* scan that leaves a ray without aborting its provisional flips
RECURSIVE ScanDir_noabort(_, _, _, _, _, _)
ScanDir_noabort(b, coord, d, offset, cur, opp) ==
    LET c == CoordAdd(coord, d[1] * offset, d[2] * offset)
    IN  IF c # <<>> /\ get_disk(b, c[1]) = cur
        THEN commit(b)
        ELSE IF c # <<>> /\ get_disk(b, c[1]) = opp
        THEN ScanDir_noabort(flip(b, c[1]), coord, d, offset + 1, cur, opp)
        ELSE [board |-> b, n |-> 0]

\* the `for offset in 1..` loop of try_move for one direction
RECURSIVE ScanDir(_, _, _, _, _, _)
ScanDir(b, coord, d, offset, cur, opp) ==
    LET c == CoordAdd(coord, d[1] * offset, d[2] * offset)
    IN  IF c # <<>> /\ get_disk(b, c[1]) = cur
        THEN commit(b)
        ELSE IF c # <<>> /\ get_disk(b, c[1]) = opp
        THEN ScanDir(flip(b, c[1]), coord, d, offset + 1, cur, opp)
        ELSE [board |-> abort(b), n |-> 0]

\* the two `for dx`, `for dy` loops of try_move, from direction i on
RECURSIVE ScanAll(_, _, _, _, _, _)
ScanAll(b, num_flip, coord, i, cur, opp) ==
    IF i > Len(Dirs)
    THEN [board |-> b, n |-> num_flip]
    ELSE LET r == ScanDir(b, coord, Dirs[i], 1, cur, opp)
         IN  IF r.n = 0
             THEN \* the direction was aborted (or committed no flip)
                  ScanAll(r.board, num_flip, coord, i + 1, cur, opp)
             ELSE \* num_flip += self.commit()
                  ScanAll(r.board, num_flip + r.n, coord, i + 1, cur, opp)

\* try_move whose test for an occupied cell sees the mover's disks only
try_move_nocheck(self, coord, disk) ==
    IF get_disk(self, coord) = disk
    THEN [result |-> "NotEmpty", num_flip |-> 0, work |-> self]
    ELSE LET r == ScanAll(self, 0, coord, 1, disk, flip_disk(disk))
         IN  IF r.n > 0
             THEN IF coord \in DOMAIN r.board.disks
                  THEN [result |-> "panic", num_flip |-> r.n,
                        work |-> r.board]
                  ELSE [result |-> "Ok", num_flip |-> r.n,
                        work |-> place(r.board, coord, disk)]
             ELSE [result |-> "NoDiskFlipped", num_flip |-> 0,
                   work |-> r.board]

\* try_move that returns the flipped board without the mover's disk
try_move_noplace(self, coord, disk) ==
    IF get_disk(self, coord) # None
    THEN [result |-> "NotEmpty", num_flip |-> 0, work |-> self]
    ELSE LET r == ScanAll(self, 0, coord, 1, disk, flip_disk(disk))
         IN  IF r.n > 0
             THEN [result |-> "Ok", num_flip |-> r.n, work |-> r.board]
             ELSE [result |-> "NoDiskFlipped", num_flip |-> 0,
                   work |-> r.board]

\* Board::try_move. `work` is the working clone when the call returns
\* (returned inside Ok, dropped on Err).
try_move(self, coord, disk) ==
    IF get_disk(self, coord) # None
    THEN [result |-> "NotEmpty", num_flip |-> 0, work |-> self]
    ELSE LET cur == disk
             opp == IF disk = Black THEN White ELSE Black
             r == ScanAll(self, 0, coord, 1, cur, opp)
         IN  IF r.n > 0
             THEN [result |-> "Ok", num_flip |-> r.n,
                   work |-> place(r.board, coord, disk)]
             ELSE [result |-> "NoDiskFlipped", num_flip |-> 0,
                   work |-> r.board]

NumDisks(b) == Cardinality(DOMAIN b.disks)

CountOf(b, disk) == Cardinality({c \in DOMAIN b.disks : b.disks[c] = disk})

\* Game::render (cui.rs): the Black and the White disks counted over the
\* rows 1..8 and the columns a..h of the board shown
count(b) ==
    LET cells == (1 .. BoardSize) \X (1 .. BoardSize)
        on(disk) == {cr \in cells :
            get_disk(b, Coordinate_new(cr[1], cr[2])) = disk}
    IN  <<Cardinality(on(Black)), Cardinality(on(White))>>

(***************************************************************************)
(* lib.rs: Position and Board.  The board is an array of 100 cells, a      *)
(* 10x10 grid whose rows and columns 0 and 9 form a border around the 8x8  *)
(* playing area.  A letter a..h is given by its position 1..8 in the       *)
(* alphabet.  A panic is <<>>, a value v that was built is <<v>>.          *)
(***************************************************************************)
GridSize == 10

\* impl From<i8> for Column
Column_from(index) ==
    IF index < 0 \/ GridSize - 1 < index THEN <<>> ELSE <<index>>

\* From<char> for Column that makes 'a' column 0, a column of the border
Column_from_char_zero(index) ==
    IF index < 1 \/ BoardSize < index THEN <<>> ELSE <<index - 1>>

\* impl From<char> for Column: 'a' is column 1
Column_from_char(index) ==
    IF index < 1 \/ BoardSize < index THEN <<>> ELSE <<index>>

\* impl From<i8> for Row
Row_from(index) ==
    IF index < 0 \/ GridSize - 1 < index THEN <<>> ELSE <<index>>

\* impl From<(i8, i8)> for Position
Position_from(col, row) ==
    LET c == Column_from(col)
        r == Row_from(row)
    IN  IF c = <<>> \/ r = <<>> THEN <<>> ELSE << <<c[1], r[1]>> >>

\* impl From<(char, i8)> for Position
Position_from_char(col, row) ==
    LET c == Column_from_char(col)
        r == Row_from(row)
    IN  IF c = <<>> \/ r = <<>> THEN <<>> ELSE << <<c[1], r[1]>> >>

\* Position::index
Position_index(pos) == pos[1] + pos[2] * GridSize

\* Position::col_and_row
col_and_row(pos) == <<pos[1], pos[2]>>

\* Board::set_disk
set_disk(b, pos, disk) == [b EXCEPT !.disks[Position_index(pos)] = disk]

\* Board::get_disk
lib_get_disk(b, pos) == b.disks[Position_index(pos)]

\* Board::new
lib_Board_new ==
    LET b0 == [disks |-> [i \in 0 .. GridSize * GridSize - 1 |-> None]]
        b1 == set_disk(b0, Position_from_char(4, 4)[1], White)
        b2 == set_disk(b1, Position_from_char(4, 5)[1], Black)
        b3 == set_disk(b2, Position_from_char(5, 4)[1], Black)
    IN  set_disk(b3, Position_from_char(5, 5)[1], White)

\* the `loop` of flip_positions, with the positions collected so far
RECURSIVE FlipLoop(_, _, _, _, _, _, _)
FlipLoop(self, col, row, d, cur, opp, positions) ==
    LET pos == Position_from(col + d[1], row + d[2])
    IN  IF pos = <<>>
        THEN [panic |-> TRUE, positions |-> <<>>]
        ELSE LET disk == lib_get_disk(self, pos[1])
             IN  IF disk # None
                 THEN IF disk = cur
                      THEN [panic |-> FALSE, positions |-> positions]
                      ELSE FlipLoop(self, col + d[1], row + d[2], d, cur, opp,
                                    IF disk = opp
                                    THEN Append(positions, pos[1])
                                    ELSE positions)
                 ELSE [panic |-> FALSE, positions |-> <<>>]

\* Board::flip_positions
flip_positions(self, cr, d, co) ==
    FlipLoop(self, cr[1], cr[2], d, co[1], co[2], <<>>)

\* the directions with (0, -1) left out
LibDirs_nonorth == << <<-1, -1>>, <<-1, 0>>, <<-1, 1>>,
                      <<0, 1>>, <<1, -1>>, <<1, 0>>, <<1, 1>> >>

\* the loops `for &dx in &[-1, 0, 1]`, `for &dy in &[-1, 0, 1]` of
\* try_place, (0, 0) skipped
LibDirs == << <<-1, -1>>, <<-1, 0>>, <<-1, 1>>, <<0, -1>>,
              <<0, 1>>, <<1, -1>>, <<1, 0>>, <<1, 1>> >>

\* the direction loops of try_place from direction i on
RECURSIVE CollectAll(_, _, _, _, _, _)
CollectAll(self, pos, i, cur, opp, positions) ==
    IF i > Len(LibDirs)
    THEN [panic |-> FALSE, positions |-> positions]
    ELSE LET f == flip_positions(self, col_and_row(pos), LibDirs[i],
                                 <<cur, opp>>)
         IN  IF f.panic
             THEN [panic |-> TRUE, positions |-> positions]
             ELSE CollectAll(self, pos, i + 1, cur, opp,
                             positions \o f.positions)

\* the loop `for pos in positions { board.set_disk(pos, current) }`
RECURSIVE SetAll(_, _, _, _)
SetAll(b, positions, cur, i) ==
    IF i > Len(positions)
    THEN b
    ELSE SetAll(set_disk(b, positions[i], cur), positions, cur, i + 1)

\* Board::try_place
try_place(self, pos, side) ==
    IF lib_get_disk(self, pos) # None
    THEN [result |-> "None", num |-> 0, board |-> self]
    ELSE LET cur == IF side = Dark THEN Black ELSE White
             opp == IF side = Dark THEN White ELSE Black
             r == CollectAll(self, pos, 1, cur, opp, <<>>)
         IN  IF r.panic
             THEN [result |-> "panic", num |-> 0, board |-> self]
             ELSE IF Len(r.positions) = 0
             THEN [result |-> "None", num |-> 0, board |-> self]
             ELSE [result |-> "Some", num |-> Len(r.positions),
                   board |-> SetAll(set_disk(self, pos, cur),
                                    r.positions, cur, 1)]

\* Game::count (lib.rs) on a board
lib_count(b) ==
    LET cells == (1 .. BoardSize) \X (1 .. BoardSize)
        on(disk) == {cr \in cells :
            lib_get_disk(b, Position_from_char(cr[1], cr[2])[1]) = disk}
    IN  <<Cardinality(on(Black)), Cardinality(on(White))>>

(***************************************************************************)
(* Two games played in the model: a 9-move game that ends with no White    *)
(* disk left, and a game in which Black has to pass after move 8.          *)
(***************************************************************************)
K(col, row) == <<Coordinate_new(col, row)>>

Lines == {
    \* f5 f6 f7 f4 f3 e3 d3 c3 b2
    << K(6, 5), K(6, 6), K(6, 7), K(6, 4), K(6, 3), K(5, 3), K(4, 3),
       K(3, 3), K(2, 2) >>,
    \* f5 f6 f7 g7 d3 f8 h8 h6
    << K(6, 5), K(6, 6), K(6, 7), K(7, 7), K(4, 3), K(6, 8), K(8, 8),
       K(8, 6) >> }

\* the board after the placements p[i], p[i + 1], ... on b, made by Black
\* and White in turn (a placement that fails is left out)
RECURSIVE ReplayFrom(_, _, _)
ReplayFrom(b, p, i) ==
    IF i > Len(p)
    THEN b
    ELSE LET r == try_move(b, p[i][1], IF i % 2 = 1 THEN Black ELSE White)
         IN  IF r.result = "Ok"
             THEN ReplayFrom(r.work, p, i + 1)
             ELSE ReplayFrom(b, p, i + 1)

Replay(p) == ReplayFrom(Board_init(Board_new), p, 1)

\* the lib.rs board after the same placements, made by Dark and Light in turn
RECURSIVE lib_ReplayFrom(_, _, _)
lib_ReplayFrom(b, p, i) ==
    IF i > Len(p)
    THEN b
    ELSE LET pos == Position_from_char(p[i][1][1] + 1, p[i][1][2] + 1)[1]
             r == try_place(b, pos, IF i % 2 = 1 THEN Dark ELSE Light)
         IN  IF r.result = "Some"
             THEN lib_ReplayFrom(r.board, p, i + 1)
             ELSE lib_ReplayFrom(b, p, i + 1)

lib_Replay(p) == lib_ReplayFrom(lib_Board_new, p, 1)

(***************************************************************************)
(* A caller holding one board.rs Board (as tests::board_try_move does) and  *)
(* one lib.rs Board with the same history: the boards are the initial ones *)
(* or ones met in the two games; the caller tries any disk at any cell     *)
(* a1..h8 on both, with try_move and with try_place.  Both take &self, so  *)
(* the calls leave the boards held as they are; the caller then unwraps    *)
(* the results and plays on from the returned boards, or drops them.       *)
(***************************************************************************)
NoCall == [op |-> "none", self |-> Board_new, coord |-> <<0, 0>>,
           disk |-> Black, result |-> "none", num_flip |-> 0,
           work |-> Board_new, lself |-> lib_Board_new, pos |-> <<0, 0>>,
           lresult |-> "none", lwork |-> lib_Board_new]

\* no call made yet on an Engine or a Game
NoAction == [op |-> "none", key |-> <<>>, accepted |-> FALSE, over |-> FALSE]

StartBoards ==
    UNION {{<<Replay(SubSeq(l, 1, i)), lib_Replay(SubSeq(l, 1, i))>> :
               i \in 0 .. Len(l)} : l \in Lines}

\* let mut board = Board::new(); board.init(); and the placements of a game
BInit ==
    /\ \E sb \in StartBoards : board = sb[1] /\ lboard = sb[2]
    /\ last = NoCall
    /\ nodes = <<>>
    /\ current = <<>>
    /\ status = <<>>
    /\ is_over = FALSE
    /\ states = <<>>
    /\ game_current = <<>>
    /\ game_status = <<>>
    /\ pc = "test"
    /\ call = NoAction
    /\ trail = <<>>
    /\ runs = <<>>
    /\ net = <<>>

\* let result = board.try_move(Coordinate::new(col, row), disk);
\* let lresult = lboard.try_place(Position::from((col, row)), side);
TryMove(col, row, disk) ==
    /\ last.op = "none"
    /\ LET coord == Coordinate_new(col, row)
           pos == Position_from_char(col, row)[1]
           r == try_move(board, coord, disk)
           l == try_place(lboard, pos, IF disk = Black THEN Dark ELSE Light)
       IN  last' = [op |-> "try_move", self |-> board, coord |-> coord,
                    disk |-> disk, result |-> r.result,
                    num_flip |-> r.num_flip, work |-> r.work,
                    lself |-> lboard, pos |-> pos, lresult |-> l.result,
                    lwork |-> l.board]
    /\ UNCHANGED <<board, lboard, engineVars, gameVars, histVars>>

\* let board = result.unwrap(); let lboard = lresult.unwrap();
Unwrap ==
    /\ last.result = "Ok"
    /\ last.lresult = "Some"
    /\ NumDisks(last.work) <= MaxDisks
    /\ board' = last.work
    /\ lboard' = last.lwork
    /\ last' = NoCall
    /\ UNCHANGED <<engineVars, gameVars, histVars>>

\* the results (an Err, a None, an Ok not played on, the unit of init) are
\* dropped
Drop ==
    /\ last.op # "none"
    /\ last' = NoCall
    /\ UNCHANGED <<board, lboard, engineVars, gameVars, histVars>>

\* board.init() on the board held; lboard = Board::new()
ReInit ==
    /\ last.op = "none"
    /\ board' = Board_init(board)
    /\ lboard' = lib_Board_new
    /\ last' = [NoCall EXCEPT !.op = "init", !.self = board,
                               !.lself = lboard]
    /\ UNCHANGED <<engineVars, gameVars, histVars>>

\* let mut work = board.clone(); work.place(Coordinate::new(col, row), disk);
\* the call returns () or panics, and `work` is the clone as the call left it
Place(col, row, disk) ==
    /\ last.op = "none"
    /\ LET coord == Coordinate_new(col, row)
       IN  last' = [NoCall EXCEPT
                       !.op = "place", !.self = board, !.coord = coord,
                       !.disk = disk,
                       !.result = IF get_disk(board, coord) # None
                                  THEN "panic"
                                  ELSE "()",
                       !.work = insert(board, coord, disk)]
    /\ UNCHANGED <<board, lboard, engineVars, gameVars, histVars>>

BNext ==
    \/ \E col \in 1 .. BoardSize, row \in 1 .. BoardSize, disk \in Disk :
          TryMove(col, row, disk)
    \/ \E col \in 1 .. BoardSize, row \in 1 .. BoardSize, disk \in Disk :
          Place(col, row, disk)
    \/ Unwrap
    \/ Drop
    \/ ReInit

SpecBoard == BInit /\ [][BNext]_vars

(***************************************************************************)
(* A caller of flip, abort and commit (as tests::board_abort and           *)
(* tests::board_commit are): on an initialised board it flips disks that   *)
(* are on the board, up to MaxFlips of them between two calls of abort or  *)
(* commit.  `last` holds the call, the board before it, the disks as the   *)
(* latest init, abort or commit left them (`base`), the number of flips    *)
(* made since then and what the call returned.                             *)
(***************************************************************************)
NoFlipCall ==
    [op |-> "none", self |-> Board_new, base |-> <<>>, flips |-> 0,
     result |-> 0]

\* let mut board = Board::new(); board.init();
FInit ==
    /\ pc = "flip"
    /\ board = Board_init(Board_new)
    /\ last = [NoFlipCall EXCEPT !.op = "init",
                                 !.base = Board_init(Board_new).disks]
    /\ lboard = lib_Board_new
    /\ nodes = <<>>
    /\ current = <<>>
    /\ status = <<>>
    /\ is_over = FALSE
    /\ states = <<>>
    /\ game_current = <<>>
    /\ game_status = <<>>
    /\ call = NoAction
    /\ trail = <<>>
    /\ runs = <<>>
    /\ net = <<>>

\* board.flip(coord) at a cell that holds a disk (at an empty cell flip
\* panics and the test ends)
Flip(coord) ==
    /\ pc = "flip"
    /\ get_disk(board, coord) # None
    /\ Len(board.stack) < MaxFlips
    /\ board' = flip(board, coord)
    /\ last' = [last EXCEPT !.op = "flip", !.self = board,
                            !.flips = @ + 1, !.result = 0]
    /\ UNCHANGED <<lboard, engineVars, gameVars, histVars>>

\* board.abort()
Abort ==
    /\ pc = "flip"
    /\ board' = abort(board)
    /\ last' = [last EXCEPT !.op = "abort", !.self = board, !.flips = 0,
                            !.result = 0]
    /\ UNCHANGED <<lboard, engineVars, gameVars, histVars>>

\* let n = board.commit()
Commit ==
    /\ pc = "flip"
    /\ board' = commit(board).board
    /\ last' = [op |-> "commit", self |-> board, base |-> board.disks,
                flips |-> 0, result |-> commit(board).n]
    /\ UNCHANGED <<lboard, engineVars, gameVars, histVars>>

FNext ==
    \/ \E coord \in Coords : Flip(coord)
    \/ Abort
    \/ Commit

SpecFlip == FInit /\ [][FNext]_vars

(***************************************************************************)
(* A caller of position.rs (as its tests are): it builds a Column, a Row   *)
(* or a Position from any character and number near the valid range, and   *)
(* offsets the Column or Row it holds by a small number or by one near the *)
(* ends of i32, in a build with or without overflow checks.  `last` holds  *)
(* the call and what it returned; a call that panics ends the test, and    *)
(* the next test starts with a constructor.                                *)
(***************************************************************************)
Chars == (Char_a - MaxOver) .. (Char_h + MaxOver)

Numbers == 0 .. (BoardSize + MaxOver)

Offsets ==
    (-(BoardSize + MaxOver) .. (BoardSize + MaxOver))
        \cup {MinI32, MinI32 + 1, MaxI32 - BoardSize, MaxI32 - 1, MaxI32}

NoPositionCall ==
    [op |-> "none", self |-> <<>>, arg |-> <<>>, checks |-> FALSE,
     result |-> Returned(<<>>)]

\* the Column or Row (named by kind) the caller holds: the one built or the
\* one an offset returned; <<>> when it holds none
Held(kind) ==
    IF last.op = kind \o "::new" /\ ~Panicked(last.result)
    THEN <<last.result>>
    ELSE IF last.op = kind \o "::add" /\ ~Panicked(last.result)
         THEN last.result.option
         ELSE <<>>

PInit ==
    /\ pc = "position"
    /\ last = NoPositionCall
    /\ board = Board_new
    /\ lboard = lib_Board_new
    /\ nodes = <<>>
    /\ current = <<>>
    /\ status = <<>>
    /\ is_over = FALSE
    /\ states = <<>>
    /\ game_current = <<>>
    /\ game_status = <<>>
    /\ call = NoAction
    /\ trail = <<>>
    /\ runs = <<>>
    /\ net = <<>>

\* Column::new(c)
NewColumn(c) ==
    /\ pc = "position"
    /\ last' = [NoPositionCall EXCEPT !.op = "Column::new", !.arg = c,
                                      !.result = Column_new(c)]
    /\ UNCHANGED <<board, lboard, engineVars, gameVars, histVars>>

\* Row::new(r)
NewRow(r) ==
    /\ pc = "position"
    /\ last' = [NoPositionCall EXCEPT !.op = "Row::new", !.arg = r,
                                      !.result = Row_new(r)]
    /\ UNCHANGED <<board, lboard, engineVars, gameVars, histVars>>

\* Position::new(c, r)
NewPosition(c, r) ==
    /\ pc = "position"
    /\ last' = [NoPositionCall EXCEPT !.op = "Position::new",
                                      !.arg = <<c, r>>,
                                      !.result = Position_new(c, r)]
    /\ UNCHANGED <<board, lboard, engineVars, gameVars, histVars>>

\* col + rhs on the Column held
AddColumn(rhs, overflow_checks) ==
    /\ pc = "position"
    /\ Held("Column") # <<>>
    /\ last' = [op |-> "Column::add", self |-> Held("Column")[1],
                arg |-> rhs, checks |-> overflow_checks,
                result |-> Column_add(Held("Column")[1], rhs,
                                      overflow_checks)]
    /\ UNCHANGED <<board, lboard, engineVars, gameVars, histVars>>

\* row + rhs on the Row held
AddRow(rhs, overflow_checks) ==
    /\ pc = "position"
    /\ Held("Row") # <<>>
    /\ last' = [op |-> "Row::add", self |-> Held("Row")[1],
                arg |-> rhs, checks |-> overflow_checks,
                result |-> Row_add(Held("Row")[1], rhs, overflow_checks)]
    /\ UNCHANGED <<board, lboard, engineVars, gameVars, histVars>>

PNext ==
    \/ \E c \in Chars : NewColumn(c)
    \/ \E r \in Numbers : NewRow(r)
    \/ \E c \in Chars, r \in Numbers : NewPosition(c, r)
    \/ \E rhs \in Offsets, overflow_checks \in BOOLEAN :
          AddColumn(rhs, overflow_checks)
    \/ \E rhs \in Offsets, overflow_checks \in BOOLEAN :
          AddRow(rhs, overflow_checks)

SpecPosition == PInit /\ [][PNext]_vars

(***************************************************************************)
(* engine.rs: the game tree.  A node is named by the keys on the path from *)
(* the root to it; `nodes` holds the nodes that are alive.  A key is       *)
(* <<coord>> for Some(coord) and <<>> for None (a pass).                   *)
(***************************************************************************)
to_disk(side) == IF side = Dark THEN Black ELSE White

\* change_turn that hands the turn to Dark whoever had it
change_turn_to_dark(side) == Dark

change_turn(side) == IF side = Dark THEN Light ELSE Dark

root == <<>>

PassKey == <<>>

Node_new(b, turn) ==
    [board |-> b, turn |-> turn, parent |-> <<>>, children |-> <<>>]

\* set_parent that leaves the back-reference empty
set_parent_unset(t, id, parent) == t

\* set_parent that makes the node its own parent
set_parent_self(t, id, parent) == [t EXCEPT ![id].parent = <<id>>]

set_parent(t, id, parent) == [t EXCEPT ![id].parent = <<parent>>]

\* Weak::upgrade: Some only while the parent is alive
get_parent(t, id) ==
    LET w == t[id].parent
    IN  IF w # <<>> /\ w[1] \in DOMAIN t THEN w ELSE <<>>

\* HashMap::insert of a new node under key; the node lives at id + key
insert_child(t, id, key, node) ==
    LET cid == Append(id, key)
    IN  (cid :> node) @@ [t EXCEPT ![id].children = (key :> cid) @@ @]

get_child(t, id, key) ==
    IF key \in DOMAIN t[id].children THEN <<t[id].children[key]>> ELSE <<>>

IsPrefix(p, q) == Len(p) <= Len(q) /\ SubSeq(q, 1, Len(p)) = p

\* remove_child that removes nothing
remove_child_kept(t, id, key) == t

\* HashMap::remove: the key goes, and the node it owned is dropped with
\* everything below it
remove_child(t, id, key) ==
    IF key \notin DOMAIN t[id].children
    THEN t
    ELSE LET cid == t[id].children[key]
             keep == {p \in DOMAIN t : ~IsPrefix(cid, p)}
         IN  [p \in keep |->
                 IF p = id
                 THEN [t[id] EXCEPT !.children =
                          [k \in DOMAIN @ \ {key} |-> @[k]]]
                 ELSE t[p]]

num_of_children(t, id) == Cardinality(DOMAIN t[id].children)

any_child(t, id) == num_of_children(t, id) > 0

\* has_none_key that never finds the pass child
has_none_key_never(t, id) == FALSE

has_none_key(t, id) == PassKey \in DOMAIN t[id].children

\* the loop `for row in 1..=8` of extend_tree in column col, from row on
RECURSIVE ExtendRows(_, _, _, _)
ExtendRows(t, cur, col, row) ==
    IF row > BoardSize
    THEN t
    ELSE LET coord == Coordinate_new(col, row)
             r == try_move(t[cur].board, coord, to_disk(t[cur].turn))
             next_turn == change_turn(t[cur].turn)
         IN  IF r.result = "Ok"
             THEN ExtendRows(
                    set_parent(
                      insert_child(t, cur, <<coord>>,
                                   Node_new(r.work, next_turn)),
                      Append(cur, <<coord>>), cur),
                    cur, col, row + 1)
             ELSE ExtendRows(t, cur, col, row + 1)

\* the column loop with the last column left out ('a'..'h')
RECURSIVE ExtendCols_exclusive(_, _, _)
ExtendCols_exclusive(t, cur, col) ==
    IF col > BoardSize - 1
    THEN t
    ELSE LET t1 == ExtendRows(t, cur, col, 1)
         IN  IF num_of_children(t1, cur) = num_of_children(t, cur)
             THEN ExtendCols_exclusive(t, cur, col + 1)
             ELSE ExtendCols_exclusive(t1, cur, col + 1)

\* the loop `for col in 'a'..='h'` of extend_tree, from column col on (a
\* column is evaluated, by the test whether it added a child, before the
\* next one starts)
RECURSIVE ExtendCols(_, _, _)
ExtendCols(t, cur, col) ==
    IF col > BoardSize
    THEN t
    ELSE LET t1 == ExtendRows(t, cur, col, 1)
         IN  IF num_of_children(t1, cur) = num_of_children(t, cur)
             THEN ExtendCols(t, cur, col + 1)
             ELSE ExtendCols(t1, cur, col + 1)

\* extend_tree without the block that inserts the pass child
ExtendPass_none(t, cur) == t

\* the block `if !self.current.any_child() { ... }` of extend_tree
ExtendPass(t, cur) ==
    IF ~any_child(t, cur)
    THEN set_parent(
           insert_child(t, cur, PassKey,
                        Node_new(t[cur].board, change_turn(t[cur].turn))),
           Append(cur, PassKey), cur)
    ELSE t

\* extend_tree without the test `if self.current.any_child() { return; }`:
\* the children are computed again and take the place of those there were
extend_tree_unguarded(t, cur) ==
    ExtendPass(ExtendCols([t EXCEPT ![cur].children = <<>>], cur, 1), cur)

\* Engine::extend_tree on the node cur
extend_tree(t, cur) ==
    IF any_child(t, cur) THEN t ELSE ExtendPass(ExtendCols(t, cur, 1), cur)

append_turn_to_status(st, turn) ==
    Append(st, IF turn = Dark THEN "Black's turn" ELSE "White's turn")

append_pass_to_status(st, turn) ==
    Append(st, IF turn = Dark THEN "Black must pass" ELSE "White must pass")

(***************************************************************************)
(* The Move commands the player gives.  A Move the current node has a     *)
(* child for is given when it stays on one of the two games of Lines or is *)
(* the first placement after the end of one; a Move it has no child for    *)
(* (it is rejected) is given at the cells of Probes.                       *)
(***************************************************************************)
\* the path p without its pass keys
RECURSIVE Placements(_)
Placements(p) ==
    IF p = <<>> THEN <<>>
    ELSE IF p[Len(p)] = PassKey
         THEN Placements(SubSeq(p, 1, Len(p) - 1))
         ELSE Append(Placements(SubSeq(p, 1, Len(p) - 1)), p[Len(p)])

Offered(p) ==
    \/ \E l \in Lines : IsPrefix(Placements(p), l)
    \/ \E l \in Lines : Len(Placements(p)) = Len(l) + 1
                        /\ IsPrefix(l, Placements(p))

\* cells at which the player also asks for a placement the current node has
\* no child for
Probes == {Coordinate_new(1, 1), Coordinate_new(4, 4), Coordinate_new(8, 8)}

\* the Move commands given to the engine
Asked(coord) ==
    /\ pc = "engine"
    /\ LET node == get_child(nodes, current, <<coord>>)
       IN  IF node # <<>> THEN Offered(node[1]) ELSE coord \in Probes

(***************************************************************************)
(* What is remembered of a run (it takes no part in what the program       *)
(* does): `call` is the last call, its argument, whether it moved the      *)
(* current node and whether the game was over; `net` is the sequence of    *)
(* the accepted placements and passes of the Engine since the last Init,   *)
(* each accepted Undo taking the latest one away; `trail` holds the board  *)
(* and the side of the latest accepted placement and the calls made since, *)
(* as long as these are Undo, undo or prepare and not too many; `runs`     *)
(* counts for each node how often its children were computed.              *)
(***************************************************************************)
\* the call op(key), made now, will move the current node (Init, Quit,
\* prepare and new_game take no argument that can be refused)
Accepting(op, key) ==
    CASE op \in {"Move", "Pass"} ->
            ~is_over /\ key \in DOMAIN nodes[current].children
      [] op = "place" ->
            key \in DOMAIN states[game_current].children
      [] op = "Undo" -> nodes[current].parent # <<>>
      [] op = "undo" -> states[game_current].parent # <<>>
      [] OTHER -> TRUE

\* the board and the side to move an accepted Move or place is made on;
\* the calls made after it are added to `then`
Origin ==
    IF pc = "engine"
    THEN [board |-> nodes[current].board, side |-> nodes[current].turn,
          then |-> <<>>]
    ELSE [board |-> states[game_current].board,
          side |-> states[game_current].side, then |-> <<>>]

\* the calls a placement is followed through
Followed == {"Undo", "undo", "prepare"}

\* the call op(key) is made now
Remember(op, key) ==
    /\ call' = [op |-> op, key |-> key, accepted |-> Accepting(op, key),
                over |-> is_over]
    /\ net' = IF pc # "engine"
              THEN net
              ELSE CASE op = "Init" -> <<>>
                     [] op \in {"Move", "Pass"} /\ Accepting(op, key) ->
                           Append(net, key)
                     [] op = "Undo" /\ Accepting(op, key) /\ net # <<>> ->
                           SubSeq(net, 1, Len(net) - 1)
                     [] OTHER -> net
    /\ trail' = IF op \in {"Move", "place"} /\ Accepting(op, key)
                THEN Origin
                ELSE IF /\ trail # <<>>
                        /\ op \in Followed
                        /\ Len(trail.then) < (IF pc = "engine"
                                              THEN MoveTrail
                                              ELSE PlaceTrail)
                     THEN [trail EXCEPT !.then = Append(@, op)]
                     ELSE <<>>

\* the nodes that have children in t1 and had none (or were not there) in t0
Expanded(t0, t1) ==
    {id \in DOMAIN t1 :
        /\ DOMAIN t1[id].children # {}
        /\ id \in DOMAIN t0 => DOMAIN t0[id].children = {}}

RunsOf(id) == IF id \in DOMAIN runs THEN runs[id] ELSE 0

\* the tree t0 has become t1 by running extend_tree / gen_next_moves
Counted(t0, t1) ==
    runs' = [id \in DOMAIN runs \cup Expanded(t0, t1) |->
                IF id \in Expanded(t0, t1) /\ RunsOf(id) < MaxRuns
                THEN RunsOf(id) + 1
                ELSE RunsOf(id)]

(***************************************************************************)
(* Engine                                                                  *)
(***************************************************************************)
\* Engine::new, at the command loop of cui.rs
Engine_new ==
    /\ nodes = (root :> Node_new(Board_init(Board_new), Dark))
    /\ current = root
    /\ status = <<>>
    /\ is_over = FALSE
    /\ board = Board_new
    /\ lboard = lib_Board_new
    /\ last = NoCall
    /\ states = <<>>
    /\ game_current = <<>>
    /\ game_status = <<>>
    /\ pc = "engine"
    /\ call = NoAction
    /\ trail = <<>>
    /\ runs = <<>>
    /\ net = <<>>

\* Engine::init that leaves the game-over flag as it is
Engine_init_keep_over ==
    /\ pc = "engine"
    /\ current' = root
    /\ nodes' = extend_tree(nodes, root)
    /\ status' = append_turn_to_status(<<"Game start! ">>, nodes[root].turn)
    /\ is_over' = is_over
    /\ Remember("Init", <<>>)
    /\ Counted(nodes, nodes')
    /\ UNCHANGED <<boardVars, gameVars>>

\* Engine::init
Engine_init ==
    /\ pc = "engine"
    /\ current' = root
    /\ nodes' = extend_tree(nodes, root)
    /\ status' = append_turn_to_status(<<"Game start! ">>, nodes[root].turn)
    /\ is_over' = FALSE
    /\ Remember("Init", <<>>)
    /\ Counted(nodes, nodes')
    /\ UNCHANGED <<boardVars, gameVars>>

\* Engine::quit
Engine_quit ==
    /\ pc = "engine"
    /\ UNCHANGED vars

\* Engine::undo without `self.is_over = false;`
Engine_undo_keep_over ==
    /\ pc = "engine"
    /\ is_over' = is_over
    /\ LET node == get_parent(nodes, current)
       IN  IF node # <<>>
           THEN /\ current' = node[1]
                /\ status' =
                     IF has_none_key(nodes, node[1])
                     THEN append_pass_to_status(<<"Undid! ">>,
                                                nodes[node[1]].turn)
                     ELSE append_turn_to_status(<<"Undid! ">>,
                                                nodes[node[1]].turn)
           ELSE /\ current' = current
                /\ status' = append_turn_to_status(<<"Couldn't undo! ">>,
                                                   nodes[current].turn)
    /\ Remember("Undo", <<>>)
    /\ UNCHANGED <<nodes, boardVars, gameVars, runs>>

\* Engine::undo that goes back to the root
Engine_undo_to_root ==
    /\ pc = "engine"
    /\ is_over' = FALSE
    /\ LET node == get_parent(nodes, current)
       IN  IF node # <<>>
           THEN /\ current' = root
                /\ status' = append_turn_to_status(<<"Undid! ">>,
                                                   nodes[root].turn)
           ELSE /\ current' = current
                /\ status' = append_turn_to_status(<<"Couldn't undo! ">>,
                                                   nodes[current].turn)
    /\ Remember("Undo", <<>>)
    /\ UNCHANGED <<nodes, boardVars, gameVars, runs>>

\* Engine::undo that reports nothing when there is no parent
Engine_undo_unreported ==
    /\ pc = "engine"
    /\ is_over' = FALSE
    /\ LET node == get_parent(nodes, current)
       IN  IF node # <<>>
           THEN /\ current' = node[1]
                /\ status' =
                     IF has_none_key(nodes, node[1])
                     THEN append_pass_to_status(<<"Undid! ">>,
                                                nodes[node[1]].turn)
                     ELSE append_turn_to_status(<<"Undid! ">>,
                                                nodes[node[1]].turn)
           ELSE /\ current' = current
                /\ status' = status
    /\ Remember("Undo", <<>>)
    /\ UNCHANGED <<nodes, boardVars, gameVars, runs>>

\* Engine::undo
Engine_undo ==
    /\ pc = "engine"
    /\ is_over' = FALSE
    /\ LET node == get_parent(nodes, current)
       IN  IF node # <<>>
           THEN /\ current' = node[1]
                /\ status' =
                     IF has_none_key(nodes, node[1])
                     THEN append_pass_to_status(<<"Undid! ">>,
                                                nodes[node[1]].turn)
                     ELSE append_turn_to_status(<<"Undid! ">>,
                                                nodes[node[1]].turn)
           ELSE /\ current' = current
                /\ status' = append_turn_to_status(<<"Couldn't undo! ">>,
                                                   nodes[current].turn)
    /\ Remember("Undo", <<>>)
    /\ UNCHANGED <<nodes, boardVars, gameVars, runs>>

\* Engine::pass without the test `if self.is_over { return; }`
Engine_pass_when_over ==
    /\ pc = "engine"
    /\ Remember("Pass", PassKey)
    /\ LET node == get_child(nodes, current, PassKey)
       IN  IF node # <<>>
           THEN \E t \in {extend_tree(nodes, node[1])} :
                    /\ Counted(nodes, t)
                    /\ current' = node[1]
                    /\ IF has_none_key(t, node[1])
                       THEN /\ nodes' = remove_child(t, node[1], PassKey)
                            /\ is_over' = TRUE
                            /\ status' = <<"Game is over! ">>
                       ELSE /\ nodes' = t
                            /\ is_over' = is_over
                            /\ status' = append_turn_to_status(
                                           <<>>, t[node[1]].turn)
           ELSE /\ status' = append_turn_to_status(
                               <<"Can't pass! ">>, nodes[current].turn)
                /\ UNCHANGED <<nodes, current, is_over, runs>>
    /\ UNCHANGED <<boardVars, gameVars>>

\* Engine::pass that goes to the root when there is no pass child
Engine_pass_to_root ==
    /\ pc = "engine"
    /\ Remember("Pass", PassKey)
    /\ IF is_over
       THEN UNCHANGED <<engineVars, runs>>
       ELSE LET node == get_child(nodes, current, PassKey)
            IN  IF node # <<>>
                THEN \E t \in {extend_tree(nodes, node[1])} :
                         /\ Counted(nodes, t)
                         /\ current' = node[1]
                         /\ IF has_none_key(t, node[1])
                            THEN /\ nodes' = remove_child(t, node[1], PassKey)
                                 /\ is_over' = TRUE
                                 /\ status' = <<"Game is over! ">>
                            ELSE /\ nodes' = t
                                 /\ is_over' = is_over
                                 /\ status' = append_turn_to_status(
                                                <<>>, t[node[1]].turn)
                ELSE /\ status' = append_turn_to_status(
                                    <<"Can't pass! ">>, nodes[current].turn)
                     /\ current' = root
                     /\ UNCHANGED <<nodes, is_over, runs>>
    /\ UNCHANGED <<boardVars, gameVars>>

\* Engine::pass
Engine_pass ==
    /\ pc = "engine"
    /\ Remember("Pass", PassKey)
    /\ IF is_over
       THEN UNCHANGED <<engineVars, runs>>
       ELSE LET node == get_child(nodes, current, PassKey)
            IN  IF node # <<>>
                THEN \E t \in {extend_tree(nodes, node[1])} :
                         /\ Counted(nodes, t)
                         /\ current' = node[1]
                         /\ IF has_none_key(t, node[1])
                            THEN /\ nodes' = remove_child(t, node[1], PassKey)
                                 /\ is_over' = TRUE
                                 /\ status' = <<"Game is over! ">>
                            ELSE /\ nodes' = t
                                 /\ is_over' = is_over
                                 /\ status' = append_turn_to_status(
                                                <<>>, t[node[1]].turn)
                ELSE /\ status' = append_turn_to_status(
                                    <<"Can't pass! ">>, nodes[current].turn)
                     /\ UNCHANGED <<nodes, current, is_over, runs>>
    /\ UNCHANGED <<boardVars, gameVars>>

\* Engine::try_move without the call of extend_tree
Engine_try_move_noextend(coord) ==
    /\ pc = "engine"
    /\ Remember("Move", <<coord>>)
    /\ IF is_over
       THEN UNCHANGED <<engineVars, runs>>
       ELSE LET node == get_child(nodes, current, <<coord>>)
            IN  IF node # <<>>
                THEN \E t \in {nodes} :
                         /\ Counted(nodes, t)
                         /\ current' = node[1]
                         /\ nodes' = t
                         /\ status' =
                              IF has_none_key(t, node[1])
                              THEN append_pass_to_status(
                                     <<>>, t[node[1]].turn)
                              ELSE append_turn_to_status(
                                     <<>>, t[node[1]].turn)
                         /\ is_over' = is_over
                ELSE /\ status' = append_turn_to_status(
                                    <<"Can't place there! ">>,
                                    nodes[current].turn)
                     /\ UNCHANGED <<nodes, current, is_over, runs>>
    /\ UNCHANGED <<boardVars, gameVars>>

\* Engine::try_move that goes to the root when there is no such child
Engine_try_move_to_root(coord) ==
    /\ pc = "engine"
    /\ Remember("Move", <<coord>>)
    /\ IF is_over
       THEN UNCHANGED <<engineVars, runs>>
       ELSE LET node == get_child(nodes, current, <<coord>>)
            IN  IF node # <<>>
                THEN \E t \in {extend_tree(nodes, node[1])} :
                         /\ Counted(nodes, t)
                         /\ current' = node[1]
                         /\ nodes' = t
                         /\ status' =
                              IF has_none_key(t, node[1])
                              THEN append_pass_to_status(
                                     <<>>, t[node[1]].turn)
                              ELSE append_turn_to_status(
                                     <<>>, t[node[1]].turn)
                         /\ is_over' = is_over
                ELSE /\ status' = append_turn_to_status(
                                    <<"Can't place there! ">>,
                                    nodes[current].turn)
                     /\ current' = root
                     /\ UNCHANGED <<nodes, is_over, runs>>
    /\ UNCHANGED <<boardVars, gameVars>>

\* Engine::try_move
Engine_try_move(coord) ==
    /\ pc = "engine"
    /\ Remember("Move", <<coord>>)
    /\ IF is_over
       THEN UNCHANGED <<engineVars, runs>>
       ELSE LET node == get_child(nodes, current, <<coord>>)
            IN  IF node # <<>>
                THEN \E t \in {extend_tree(nodes, node[1])} :
                         /\ Counted(nodes, t)
                         /\ current' = node[1]
                         /\ nodes' = t
                         /\ status' =
                              IF has_none_key(t, node[1])
                              THEN append_pass_to_status(
                                     <<>>, t[node[1]].turn)
                              ELSE append_turn_to_status(
                                     <<>>, t[node[1]].turn)
                         /\ is_over' = is_over
                ELSE /\ status' = append_turn_to_status(
                                    <<"Can't place there! ">>,
                                    nodes[current].turn)
                     /\ UNCHANGED <<nodes, current, is_over, runs>>
    /\ UNCHANGED <<boardVars, gameVars>>

(***************************************************************************)
(* lib.rs: Game and State.  A State is named, as a Node is, by the keys on *)
(* the path from the root; a key is <<pos>> for Some(pos) and <<>> for     *)
(* None.  States are never removed.                                        *)
(***************************************************************************)
\* State::new
State_new(b, side) ==
    [board |-> b, side |-> side, parent |-> <<>>, children |-> <<>>]

\* State::set_parent
State_set_parent(t, id, parent) == [t EXCEPT ![id].parent = <<parent>>]

\* State::get_parent
State_get_parent(t, id) ==
    LET w == t[id].parent
    IN  IF w # <<>> /\ w[1] \in DOMAIN t THEN w ELSE <<>>

\* State::insert_child
State_insert_child(t, id, key, state) ==
    LET cid == Append(id, key)
    IN  (cid :> state) @@ [t EXCEPT ![id].children = (key :> cid) @@ @]

\* State::get_child
State_get_child(t, id, key) ==
    IF key \in DOMAIN t[id].children THEN <<t[id].children[key]>> ELSE <<>>

\* State::has_children
has_children(t, id) == Cardinality(DOMAIN t[id].children) > 0

\* lib.rs change_turn
lib_change_turn(side) == IF side = Dark THEN Light ELSE Dark

\* the loop `for row in 1i8..=8` of gen_next_moves in column col, from row on
RECURSIVE GenRows(_, _, _, _)
GenRows(t, cur, col, row) ==
    IF row > BoardSize
    THEN t
    ELSE LET pos == Position_from_char(col, row)[1]
             r == try_place(t[cur].board, pos, t[cur].side)
             next_side == lib_change_turn(t[cur].side)
         IN  IF r.result = "Some"
             THEN GenRows(
                    State_set_parent(
                      State_insert_child(t, cur, <<pos>>,
                                         State_new(r.board, next_side)),
                      Append(cur, <<pos>>), cur),
                    cur, col, row + 1)
             ELSE GenRows(t, cur, col, row + 1)

\* the loop `for col in 'a'..='h'` of gen_next_moves, from column col on
\* (a column is evaluated, by the test whether it added a child, before the
\* next one starts)
RECURSIVE GenCols(_, _, _)
GenCols(t, cur, col) ==
    IF col > BoardSize
    THEN t
    ELSE LET t1 == GenRows(t, cur, col, 1)
         IN  IF Cardinality(DOMAIN t1[cur].children)
                   = Cardinality(DOMAIN t[cur].children)
             THEN GenCols(t, cur, col + 1)
             ELSE GenCols(t1, cur, col + 1)

\* the block `if !self.current.has_children() { ... }` of gen_next_moves
GenPass(t, cur) ==
    IF ~has_children(t, cur)
    THEN State_set_parent(
           State_insert_child(t, cur, PassKey,
                              State_new(t[cur].board,
                                        lib_change_turn(t[cur].side))),
           Append(cur, PassKey), cur)
    ELSE t

\* Game::gen_next_moves on the state cur
gen_next_moves(t, cur) ==
    IF has_children(t, cur) THEN t ELSE GenPass(GenCols(t, cur, 1), cur)

\* Game::pass_back: whether the pass child was entered, and the current state
pass_back(t, cur) ==
    LET state == State_get_child(t, cur, PassKey)
    IN  IF state # <<>>
        THEN [ok |-> TRUE, current |-> state[1]]
        ELSE [ok |-> FALSE, current |-> cur]

\* enum GameStatus
GameOver(c) ==
    [kind |-> "GameOver", black |-> c[1], white |-> c[2], side |-> None]
PassBack(c, side) ==
    [kind |-> "PassBack", black |-> c[1], white |-> c[2], side |-> side]
Continue(c, side) ==
    [kind |-> "Continue", black |-> c[1], white |-> c[2], side |-> side]

\* prepare that reports a pass after the first pass_back without looking
\* for a second one
PreparePassed_once(t, cur, c) ==
    [states |-> t, current |-> cur, status |-> PassBack(c, t[cur].side)]

\* Game::prepare from the second gen_next_moves on: t is the tree and cur
\* the state after the first pass_back, c the count taken before it
PreparePassed(t, cur, c) ==
    LET p2 == pass_back(t, cur)
    IN  IF p2.ok
        THEN [states |-> t, current |-> p2.current, status |-> GameOver(c)]
        ELSE [states |-> t, current |-> cur,
              status |-> PassBack(c, t[cur].side)]

\* Game::prepare from the count on: t is the tree after gen_next_moves
PrepareCounted(t, cur, c) ==
    IF c[1] + c[2] = BoardSize * BoardSize
    THEN [states |-> t, current |-> cur, status |-> GameOver(c)]
    ELSE LET p1 == pass_back(t, cur)
         IN  IF p1.ok
             THEN PreparePassed(gen_next_moves(t, p1.current), p1.current, c)
             ELSE [states |-> t, current |-> cur,
                   status |-> Continue(c, t[cur].side)]

\* prepare that reports the count of the root
PrepareCount_root(t, cur) == PrepareCounted(t, cur, lib_count(t[root].board))

\* the count of prepare on the tree after gen_next_moves
PrepareCount(t, cur) == PrepareCounted(t, cur, lib_count(t[cur].board))

\* Game::prepare: the tree, the current state and the status returned
prepare(t, cur) == PrepareCount(gen_next_moves(t, cur), cur)

\* the placements on the path p of states, as keys of Lines
RECURSIVE GamePlacements(_)
GamePlacements(p) ==
    IF p = <<>> THEN <<>>
    ELSE IF p[Len(p)] = PassKey
         THEN GamePlacements(SubSeq(p, 1, Len(p) - 1))
         ELSE Append(GamePlacements(SubSeq(p, 1, Len(p) - 1)),
                     << <<p[Len(p)][1][1] - 1, p[Len(p)][1][2] - 1>> >>)

\* the placements entered at the prompt of the game (see Asked)
GameAsked(col, row) ==
    /\ pc = "input"
    /\ LET state == State_get_child(states, game_current,
                                    <<Position_from_char(col, row)[1]>>)
       IN  IF state # <<>>
           THEN \/ \E l \in Lines : IsPrefix(GamePlacements(state[1]), l)
                \/ \E l \in Lines :
                      /\ Len(GamePlacements(state[1])) = Len(l) + 1
                      /\ IsPrefix(l, GamePlacements(state[1]))
           ELSE Coordinate_new(col, row) \in Probes

(***************************************************************************)
(* Game in the loop of cui::main (main.rs): pc is "prepare" at the top of  *)
(* the loop, "again" at the play-again prompt, "input" at the move prompt  *)
(* and "exit" after the loop.                                              *)
(***************************************************************************)
\* Game::new, at the top of the loop of cui::main
Game_new ==
    /\ states = (root :> State_new(lib_Board_new, Dark))
    /\ game_current = root
    /\ game_status = <<>>
    /\ pc = "prepare"
    /\ nodes = <<>>
    /\ current = <<>>
    /\ status = <<>>
    /\ is_over = FALSE
    /\ board = Board_new
    /\ lboard = lib_Board_new
    /\ last = NoCall
    /\ call = NoAction
    /\ trail = <<>>
    /\ runs = <<>>
    /\ net = <<>>

\* match game.prepare() { ... }
Game_prepare ==
    /\ pc = "prepare"
    /\ \E r \in {prepare(states, game_current)} :
           /\ states' = r.states
           /\ game_current' = r.current
           /\ game_status' = <<r.status>>
           /\ pc' = IF r.status.kind = "GameOver" THEN "again" ELSE "input"
           /\ Counted(states, r.states)
    /\ Remember("prepare", <<>>)
    /\ UNCHANGED <<boardVars, engineVars>>

\* if play_again() { game.new_game(); } else { break; }
Game_new_game(again) ==
    /\ pc = "again"
    /\ IF again
       THEN /\ game_current' = root
            /\ pc' = "input"
       ELSE /\ game_current' = game_current
            /\ pc' = "exit"
    /\ Remember(IF again THEN "new_game" ELSE "break", <<>>)
    /\ UNCHANGED <<states, game_status, boardVars, engineVars, runs>>

\* Input::Undo => { game.undo(); break; }
Game_undo ==
    /\ pc = "input"
    /\ LET state == State_get_parent(states, game_current)
       IN  game_current' = IF state # <<>> THEN state[1] ELSE game_current
    /\ pc' = "prepare"
    /\ Remember("undo", <<>>)
    /\ UNCHANGED <<states, game_status, boardVars, engineVars, runs>>

\* Input::Place(pos) => { if game.place(pos) { break; } }
Game_place(pos) ==
    /\ pc = "input"
    /\ LET state == State_get_child(states, game_current, <<pos>>)
       IN  IF state # <<>>
           THEN /\ game_current' = state[1]
                /\ pc' = "prepare"
           ELSE UNCHANGED <<game_current, pc>>
    /\ Remember("place", <<pos>>)
    /\ UNCHANGED <<states, game_status, boardVars, engineVars, runs>>

\* Engine::new or Game::new
Init == Engine_new \/ Game_new

\* Engine::action, or a step of cui::main
Next ==
    \/ Engine_init
    \/ Engine_quit
    \/ Engine_undo
    \/ Engine_pass
    \/ \E coord \in Coords : Asked(coord) /\ Engine_try_move(coord)
    \/ Game_prepare
    \/ \E again \in BOOLEAN : Game_new_game(again)
    \/ Game_undo
    \/ \E col \in 1 .. BoardSize, row \in 1 .. BoardSize :
          GameAsked(col, row) /\ Game_place(Position_from_char(col, row)[1])

Spec == Init /\ [][Next]_vars

(***************************************************************************)
(* A game played to the last cell: sixty placements without a pass, after  *)
(* which the board is full.  The Game is taken through it by SpecFull,     *)
(* which also plays the two games of Lines and starts again after a game   *)
(* is over; there is no undo in SpecFull.                                  *)
(***************************************************************************)
\* e6 f6 c4 e7 g7 b3 e8 d3 a2 b4 d2 e2 f2 f1 a4 c2 d1 g2 f3 f4 g4 b2 h1
\* b5 c6 h3 b1 h5 h2 b7 a8 a6 h4 f7 g8 f5 g6 d6 d7 h8 g5 h6 g3 c5 e3 d8
\* c8 g1 e1 c7 h7 a7 b6 c1 f8 a1 b8 c3 a5 a3
FullLine == <<
    K(5, 6), K(6, 6), K(3, 4), K(5, 7), K(7, 7), K(2, 3),
    K(5, 8), K(4, 3), K(1, 2), K(2, 4), K(4, 2), K(5, 2),
    K(6, 2), K(6, 1), K(1, 4), K(3, 2), K(4, 1), K(7, 2),
    K(6, 3), K(6, 4), K(7, 4), K(2, 2), K(8, 1), K(2, 5),
    K(3, 6), K(8, 3), K(2, 1), K(8, 5), K(8, 2), K(2, 7),
    K(1, 8), K(1, 6), K(8, 4), K(6, 7), K(7, 8), K(6, 5),
    K(7, 6), K(4, 6), K(4, 7), K(8, 8), K(7, 5), K(8, 6),
    K(7, 3), K(3, 5), K(5, 3), K(4, 8), K(3, 8), K(7, 1),
    K(5, 1), K(3, 7), K(8, 7), K(1, 7), K(2, 6), K(3, 1),
    K(6, 8), K(1, 1), K(2, 8), K(3, 3), K(1, 5), K(1, 3) >>

FullLines == Lines \cup {FullLine}

\* the placements entered at the prompt in SpecFull
FullAsked(col, row) ==
    /\ pc = "input"
    /\ LET state == State_get_child(states, game_current,
                                    <<Position_from_char(col, row)[1]>>)
       IN  IF state # <<>>
           THEN \E l \in FullLines : IsPrefix(GamePlacements(state[1]), l)
           ELSE Coordinate_new(col, row) \in Probes

\* a step of cui::main in which the player never enters undo
FullNext ==
    \/ Game_prepare
    \/ \E again \in BOOLEAN : Game_new_game(again)
    \/ \E col \in 1 .. BoardSize, row \in 1 .. BoardSize :
          FullAsked(col, row) /\ Game_place(Position_from_char(col, row)[1])

SpecFull == Game_new /\ [][FullNext]_vars

\* the Move commands of a player of the Engine who plays the games of
\* FullLines (see Asked)
PlayAsked(coord) ==
    /\ pc = "engine"
    /\ LET node == get_child(nodes, current, <<coord>>)
       IN  IF node # <<>>
           THEN \E l \in FullLines : IsPrefix(Placements(node[1]), l)
           ELSE coord \in Probes

\* an action of the Engine given by a player who calls Init once, at the
\* start, and never asks for Undo
PlayNext ==
    \/ call.op = "none" /\ Engine_init
    \/ Engine_pass
    \/ \E coord \in Coords : PlayAsked(coord) /\ Engine_try_move(coord)

SpecPlay == Engine_new /\ [][PlayNext]_vars

(***************************************************************************)
(* A caller of Game's public functions that is free to call prepare at any *)
(* time (cui::main and gui::main call it after new and after an accepted   *)
(* place only): it calls prepare up to MaxPrepares times in a row and      *)
(* places along the games of Lines.  `last` counts the calls of prepare    *)
(* made since the latest accepted place.                                   *)
(***************************************************************************)
\* let mut game = Game::new();
AInit ==
    /\ states = (root :> State_new(lib_Board_new, Dark))
    /\ game_current = root
    /\ game_status = <<>>
    /\ pc = "api"
    /\ nodes = <<>>
    /\ current = <<>>
    /\ status = <<>>
    /\ is_over = FALSE
    /\ board = Board_new
    /\ lboard = lib_Board_new
    /\ last = [prepares |-> 0]
    /\ call = NoAction
    /\ trail = <<>>
    /\ runs = <<>>
    /\ net = <<>>

\* let status = game.prepare();
Api_prepare ==
    /\ pc = "api"
    /\ last.prepares < MaxPrepares
    /\ \E r \in {prepare(states, game_current)} :
           /\ states' = r.states
           /\ game_current' = r.current
           /\ game_status' = <<r.status>>
           /\ Counted(states, r.states)
    /\ last' = [prepares |-> last.prepares + 1]
    /\ Remember("prepare", <<>>)
    /\ UNCHANGED <<pc, board, lboard, engineVars>>

\* game.place(pos), at a cell that continues one of the games or at a cell
\* of Probes when the current state has no child there
Api_place(col, row) ==
    /\ pc = "api"
    /\ LET pos == Position_from_char(col, row)[1]
           state == State_get_child(states, game_current, <<pos>>)
       IN  /\ IF state # <<>>
              THEN /\ \E l \in Lines :
                         IsPrefix(GamePlacements(state[1]), l)
                   /\ game_current' = state[1]
                   /\ last' = [prepares |-> 0]
              ELSE /\ Coordinate_new(col, row) \in Probes
                   /\ game_current' = game_current
                   /\ last' = last
           /\ Remember("place", <<pos>>)
    /\ UNCHANGED <<pc, states, game_status, board, lboard, engineVars, runs>>

ANext ==
    \/ Api_prepare
    \/ \E col \in 1 .. BoardSize, row \in 1 .. BoardSize : Api_place(col, row)

SpecApi == AInit /\ [][ANext]_vars

(***************************************************************************)
(* The board button of gui::main (main.rs): pc is "click" while the        *)
(* window waits for a button press and "aborted" after a handler panicked. *)
(* A pointer position is counted in half pixels, so that the conversion    *)
(* `as usize` has a fraction to drop.  The Undo button is never pressed.   *)
(***************************************************************************)
HalfPixels == 2

\* handler.set_size_request(257, 257)
ButtonSize == 257

\* the divisor in x as usize / 32
CellSize == 32

\* b"abcdefgh", a letter being its number from 'a' = 1 (see Column_from_char)
ColumnTable == <<1, 2, 3, 4, 5, 6, 7, 8>>

\* x as usize, of a position that is not negative
as_usize(half) == half \div HalfPixels

\* b"abcdefgh"[index] as char
ColumnTable_index(index) ==
    IF index < Len(ColumnTable)
    THEN [char |-> ColumnTable[index + 1]]
    ELSE Panic("index out of bounds")

\* the pointer positions of the presses: both ends of the button, the first
\* cell boundary, and the centre of every cell
Presses ==
    {0, CellSize * HalfPixels - 1, CellSize * HalfPixels,
     (ButtonSize - 1) * HalfPixels - 1, (ButtonSize - 1) * HalfPixels}
    \cup {(CellSize * k + CellSize \div 2) * HalfPixels : k \in 0 .. 7}

\* application.connect_activate: GuiGame::new and game.prepare()
CInit ==
    /\ \E r \in {prepare(root :> State_new(lib_Board_new, Dark), root)} :
           /\ states = r.states
           /\ game_current = r.current
           /\ game_status = <<r.status>>
    /\ pc = "click"
    /\ nodes = <<>>
    /\ current = <<>>
    /\ status = <<>>
    /\ is_over = FALSE
    /\ board = Board_new
    /\ lboard = lib_Board_new
    /\ last = [op |-> "none"]
    /\ call = NoAction
    /\ trail = <<>>
    /\ runs = <<>>
    /\ net = <<>>

\* ui.handler.connect_button_press_event, for a press at (x, y); an
\* accepted placement continues one of the games of Lines
Press(x, y) ==
    /\ pc = "click"
    /\ LET col == ColumnTable_index(as_usize(x) \div CellSize)
           row == as_usize(y) \div CellSize + 1
       IN  IF Panicked(col)
           THEN /\ pc' = "aborted"
                /\ last' = [op |-> "press", x |-> x, y |-> y, result |-> col]
                /\ UNCHANGED <<states, game_current, game_status>>
           ELSE LET pos == Position_from_char(col.char, row)[1]
                    state == State_get_child(states, game_current, <<pos>>)
                IN  /\ pc' = pc
                    /\ last' = [op |-> "press", x |-> x, y |-> y,
                                result |-> [pos |-> pos,
                                            placed |-> state # <<>>]]
                    /\ IF state # <<>>
                       THEN /\ \E l \in Lines :
                                  IsPrefix(GamePlacements(state[1]), l)
                            /\ \E r \in {prepare(states, state[1])} :
                                   /\ states' = r.states
                                   /\ game_current' = r.current
                                   /\ game_status' = <<r.status>>
                       ELSE UNCHANGED <<states, game_current, game_status>>
    /\ UNCHANGED <<board, lboard, engineVars, histVars>>

CNext == \E x \in Presses, y \in Presses : Press(x, y)

SpecClick == CInit /\ [][CNext]_vars

(***************************************************************************)
(* The capture rule of Othello, stated on cells (not by scanning).         *)
(***************************************************************************)
Opponent(disk) == IF disk = Black THEN White ELSE Black

AllDirs == {d \in {-1, 0, 1} \X {-1, 0, 1} : d # <<0, 0>>}

Cell(pos, d, k) == <<pos[1] + k * d[1], pos[2] + k * d[2]>>

At(b, c) == IF c \in DOMAIN b.disks THEN b.disks[c] ELSE None

\* the cells 1 .. n-1 from pos in direction d hold opponent disks and cell
\* n holds a disk of the mover
Bracket(b, pos, d, disk, n) ==
    /\ Cell(pos, d, n) \in Coords
    /\ At(b, Cell(pos, d, n)) = disk
    /\ \A k \in 1 .. n - 1 : At(b, Cell(pos, d, k)) = Opponent(disk)

\* the opponent disks bracketed from pos in direction d
Run(b, pos, d, disk) ==
    {Cell(pos, d, k) : k \in {k \in 1 .. BoardSize - 2 :
        \E n \in k + 1 .. BoardSize - 1 : Bracket(b, pos, d, disk, n)}}

Captured(b, pos, disk) == UNION {Run(b, pos, d, disk) : d \in AllDirs}

\* the scan from pos in direction d passes opponent disks only and then
\* meets a disk of the mover
EndsOnOwn(b, pos, d, disk) ==
    \E n \in 1 .. BoardSize - 1 : Bracket(b, pos, d, disk, n)

\* the cells of the board on the ray from pos in direction d
Ray(pos, d) ==
    {Cell(pos, d, k) : k \in 1 .. BoardSize - 1} \cap Coords

d4 == Coordinate_new(4, 4)
d5 == Coordinate_new(4, 5)
e4 == Coordinate_new(5, 4)
e5 == Coordinate_new(5, 5)
f4 == Coordinate_new(6, 4)
f5 == Coordinate_new(6, 5)

StartDisks == (d4 :> White) @@ (e5 :> White) @@ (d5 :> Black) @@ (e4 :> Black)

InitialPosition(b) == b.disks = StartDisks /\ b.stack = <<>>

\* the lib.rs board read at the cells a1..h8, and its border
LibAt(b, c) == b.disks[(c[1] + 1) + (c[2] + 1) * GridSize]

LibCells(b) ==
    [c \in {x \in Coords : LibAt(b, x) # None} |-> LibAt(b, c)]

LibBorderEmpty(b) ==
    \A i \in DOMAIN b.disks :
        (i % GridSize \in {0, GridSize - 1}
            \/ i \div GridSize \in {0, GridSize - 1}) => b.disks[i] = None

LibInitialPosition(b) == LibCells(b) = StartDisks /\ LibBorderEmpty(b)

Called == last.op = "try_move"

Failed == Called /\ last.result \in {"NotEmpty", "NoDiskFlipped"}

(***************************************************************************)
(* Claims about Board (SpecBoard)                                          *)
(***************************************************************************)

\* C1: try_move at an empty cell succeeds exactly when some direction holds
\* a run of opponent disks ended by a disk of the mover; the board returned
\* is the input with those runs turned and the mover's disk added at the
\* cell, nothing else differing; with no such run it fails with
\* NoDiskFlipped.
C1_CaptureRule ==
    (Called /\ last.coord \notin DOMAIN last.self.disks) =>
        LET cap == Captured(last.self, last.coord, last.disk)
        IN  /\ (last.result = "Ok") <=> (cap # {})
            /\ (cap = {}) => last.result = "NoDiskFlipped"
            /\ (cap # {}) =>
                 /\ last.work.disks =
                      [c \in DOMAIN last.self.disks \cup {last.coord} |->
                          IF c = last.coord \/ c \in cap
                          THEN last.disk
                          ELSE last.self.disks[c]]
                 /\ last.num_flip = Cardinality(cap)

\* a successful move that captures in two or more directions
C1_Witness ==
    /\ Called
    /\ last.result = "Ok"
    /\ Cardinality({d \in AllDirs :
           Run(last.self, last.coord, d, last.disk) # {}}) >= 2

\* C2: a failed try_move leaves the board held as it was, and the working
\* copy it drops carries no flip and no provisional stack entry, so a later
\* attempt starts from the same board.
C2_FailedAttemptLeavesBoard ==
    Failed =>
        /\ board = last.self
        /\ last.work.disks = last.self.disks
        /\ last.work.stack = <<>>
        /\ last.lresult = "None" => lboard = last.lself

\* a failed attempt that flipped an adjacent opponent disk provisionally
C2_Witness ==
    /\ Failed
    /\ last.result = "NoDiskFlipped"
    /\ \E d \in AllDirs :
          At(last.self, Cell(last.coord, d, 1)) = Opponent(last.disk)

\* C3: after a successful try_move, every ray whose scan does not end on a
\* disk of the mover holds in the returned board what it held in the input.
C3_AbortedRayUntouched ==
    (Called /\ last.result = "Ok") =>
        \A d \in AllDirs :
            ~EndsOnOwn(last.self, last.coord, d, last.disk) =>
                \A c \in Ray(last.coord, d) :
                    At(last.work, c) = At(last.self, c)

\* a successful move with a ray on which two opponent disks were flipped
\* and then aborted
C3_Witness ==
    /\ Called
    /\ last.result = "Ok"
    /\ \E d \in AllDirs :
          /\ ~EndsOnOwn(last.self, last.coord, d, last.disk)
          /\ At(last.self, Cell(last.coord, d, 1)) = Opponent(last.disk)
          /\ At(last.self, Cell(last.coord, d, 2)) = Opponent(last.disk)

\* C4: try_move at a cell that holds a disk fails with NotEmpty and leaves
\* the board unchanged.
C4_OccupiedCellRejected ==
    (Called /\ last.coord \in DOMAIN last.self.disks) =>
        /\ last.result = "NotEmpty"
        /\ board = last.self
        /\ last.work = last.self

\* a rejected attempt at an occupied cell that brackets opponent disks
C4_Witness ==
    /\ Called
    /\ last.result = "NotEmpty"
    /\ Captured(last.self, last.coord, last.disk) # {}

\* C5 as stated: the returned board holds the input's disks plus the disks
\* flipped plus one.
C5_Original ==
    (Called /\ last.result = "Ok") =>
        NumDisks(last.work) = NumDisks(last.self) + last.num_flip + 1

\* C5 amended: the returned board holds the input's disks plus one, and the
\* mover's disks are the mover's input disks plus the disks flipped plus
\* one.
C5_DiskCount ==
    (Called /\ last.result = "Ok") =>
        /\ NumDisks(last.work) = NumDisks(last.self) + 1
        /\ CountOf(last.work, last.disk) =
              CountOf(last.self, last.disk) + last.num_flip + 1

\* a successful move that flipped three or more disks
C5_Witness ==
    /\ Called
    /\ last.result = "Ok"
    /\ last.num_flip >= 3

\* C6: an initialised board (Board::init of board.rs, Board::new of lib.rs)
\* holds White at d4 and e5, Black at d5 and e4 and nothing else, also when
\* init runs on a used board.
C6_InitialPosition ==
    /\ (last.op = "init") =>
          InitialPosition(board) /\ LibInitialPosition(lboard)
    /\ (NumDisks(board) <= 4) => InitialPosition(board)
    /\ LibInitialPosition(lib_Board_new)

\* init has run on a board that held more than four disks
C6_Witness ==
    /\ last.op = "init"
    /\ NumDisks(last.self) > 4
    /\ InitialPosition(board)

\* C7: Black at f5 on the initial position succeeds, flips e5 only, and
\* yields Black at d5, e4, e5, f5 and White at d4.
C7_BlackF5 ==
    (Called /\ InitialPosition(last.self) /\ last.coord = f5
            /\ last.disk = Black) =>
        /\ last.result = "Ok"
        /\ last.num_flip = 1
        /\ {c \in Coords : At(last.work, c) # At(last.self, c)} = {e5, f5}
        /\ last.work.disks =
              (d5 :> Black) @@ (e4 :> Black) @@ (e5 :> Black)
                 @@ (f5 :> Black) @@ (d4 :> White)
        /\ LibInitialPosition(last.lself) =>
              /\ last.lresult = "Some"
              /\ LibCells(last.lwork) = last.work.disks
              /\ LibBorderEmpty(last.lwork)

\* Black has played f5 on the initial position
C7_Witness ==
    /\ Called
    /\ InitialPosition(last.self)
    /\ LibInitialPosition(last.lself)
    /\ last.coord = f5
    /\ last.disk = Black
    /\ last.result = "Ok"

\* C8 as stated: after Black's f5 on the initial position the counts are
\* 5 Black and 1 White.
C8_Original ==
    (Called /\ InitialPosition(last.self) /\ last.coord = f5
            /\ last.disk = Black) =>
        /\ count(last.work) = <<5, 1>>
        /\ LibInitialPosition(last.lself) =>
              lib_count(last.lwork) = <<5, 1>>

\* C8 amended: after Black's f5 on the initial position the counts are
\* 4 Black and 1 White.
C8_CountsAfterF5 ==
    (Called /\ InitialPosition(last.self) /\ last.coord = f5
            /\ last.disk = Black) =>
        /\ count(last.work) = <<4, 1>>
        /\ LibInitialPosition(last.lself) =>
              lib_count(last.lwork) = <<4, 1>>

\* Black's f5 on the initial position has returned a board
C8_Witness ==
    /\ Called
    /\ InitialPosition(last.self)
    /\ <<last.coord, last.disk, last.result>> = <<f5, Black, "Ok">>
    /\ count(last.work)[1] + count(last.work)[2] = 5

(***************************************************************************)
(* Claims about the game tree (Spec)                                       *)
(***************************************************************************)
OtherSide(side) == IF side = Dark THEN Light ELSE Dark

\* the cells at which try_move succeeds for the side to move of node n
TryMoveOk(n) ==
    {c \in Coords : try_move(n.board, c, to_disk(n.turn)).result = "Ok"}

\* the side playing disk has a placement on b by the capture rule
HasPlacement(b, disk) ==
    \E c \in Coords \ DOMAIN b.disks, d \in AllDirs :
        \E n \in 2 .. BoardSize - 1 : Bracket(b, c, d, disk, n)

c4 == Coordinate_new(3, 4)
d3 == Coordinate_new(4, 3)
e6 == Coordinate_new(5, 6)

\* the positions at which try_place succeeds for the side of state n
TryPlaceOk(n) ==
    {pos \in (1 .. BoardSize) \X (1 .. BoardSize) :
        try_place(n.board, pos, n.side).result = "Some"}

\* C9: an expanded current node (Engine) or state (Game) has a child at
\* exactly the cells where try_move (try_place) succeeds for its side on its
\* board; each child holds the board returned and has the other side to
\* move; the expanded root has the children c4, d3, e6, f5.
C9_ExpansionChildren ==
    /\ (pc = "engine" /\ any_child(nodes, current)) =>
         LET n == nodes[current]
             ok == TryMoveOk(n)
         IN  /\ DOMAIN n.children \ {PassKey} = {<<c>> : c \in ok}
             /\ \A c \in ok :
                   LET child == nodes[n.children[<<c>>]]
                   IN  /\ child.board =
                            try_move(n.board, c, to_disk(n.turn)).work
                       /\ child.turn = OtherSide(n.turn)
    /\ (pc = "engine" /\ any_child(nodes, root)) =>
         DOMAIN nodes[root].children = {<<c4>>, <<d3>>, <<e6>>, <<f5>>}
    /\ (pc \in {"input", "again"}
            /\ has_children(states, game_current)) =>
         LET n == states[game_current]
             ok == TryPlaceOk(n)
         IN  /\ DOMAIN n.children \ {PassKey} = {<<pos>> : pos \in ok}
             /\ \A pos \in ok :
                   LET child == states[n.children[<<pos>>]]
                   IN  /\ child.board = try_place(n.board, pos, n.side).board
                       /\ child.side = OtherSide(n.side)
    /\ (pc \in {"input", "again"}) =>
         DOMAIN states[root].children =
            {<< <<3, 4>> >>, << <<4, 3>> >>, << <<5, 6>> >>, << <<6, 5>> >>}

\* a Move has expanded a node below the root into five or more children, or
\* prepare has done so with a state
C9_Witness ==
    \/ /\ pc = "engine"
       /\ current # root
       /\ ~has_none_key(nodes, current)
       /\ num_of_children(nodes, current) >= 5
    \/ /\ pc = "input"
       /\ game_current # root
       /\ Cardinality(DOMAIN states[game_current].children) >= 5

\* the node id of the tree t of the Engine has a pass child exactly when
\* its side has no placement
NodePassIff(t, id) ==
    has_none_key(t, id)
        <=> ~HasPlacement(t[id].board, to_disk(t[id].turn))

\* a pass child of the node id is its only child and holds the board of
\* the node with the other side to move
NodePassAlone(t, id) ==
    has_none_key(t, id) =>
        LET child == t[t[id].children[PassKey]]
        IN  /\ DOMAIN t[id].children = {PassKey}
            /\ child.board = t[id].board
            /\ child.turn = OtherSide(t[id].turn)

\* the same for the state id of the tree t of Game
StatePassIff(t, id) ==
    PassKey \in DOMAIN t[id].children
        <=> ~HasPlacement([disks |-> LibCells(t[id].board)],
                          to_disk(t[id].side))

StatePassAlone(t, id) ==
    PassKey \in DOMAIN t[id].children =>
        LET child == t[t[id].children[PassKey]]
        IN  /\ DOMAIN t[id].children = {PassKey}
            /\ child.board = t[id].board
            /\ child.side = OtherSide(t[id].side)

\* the game of the Engine ended at the node id: it was entered over a pass
\* edge, its side has no placement either, and it has no child
EndedAt(t, id) ==
    /\ id # root
    /\ id[Len(id)] = PassKey
    /\ ~HasPlacement(t[id].board, to_disk(t[id].turn))
    /\ ~any_child(t, id)

\* the call of the step ran extend_tree on the node it made current: Init,
\* and a Move or a Pass along an edge while the game is not over
Expanding ==
    /\ pc = "engine"
    /\ call'.op \in {"Init", "Move", "Pass"}
    /\ call'.accepted

\* the nodes (states) recorded as expanded after the step that the step
\* has expanded or changed; the others are as they were before the step
Touched(t0, t1) ==
    {id \in DOMAIN runs' \cap DOMAIN t1 :
        \/ id \notin DOMAIN runs
        \/ id \notin DOMAIN t0
        \/ t1[id] # t0[id]}

\* what Game does in every step: the state prepare is called on, and every
\* state expanded or changed by the step, has a pass child exactly when its
\* side has no placement, and a pass child is alone
C10_GameStep ==
    /\ (pc = "prepare" /\ call'.op = "prepare") =>
          StatePassIff(states', game_current)
    /\ \A id \in Touched(states, states') : StatePassIff(states', id)
    /\ \A id \in DOMAIN states' : StatePassAlone(states', id)

\* what C10 says of one step, as stated
C10_OriginalStep ==
    /\ Expanding => NodePassIff(nodes', current')
    /\ \A id \in Touched(nodes, nodes') : NodePassIff(nodes', id)
    /\ \A id \in DOMAIN nodes' : NodePassAlone(nodes', id)
    /\ C10_GameStep

\* C10 (as stated): every node that extend_tree has expanded, and every
\* state that gen_next_moves has expanded, has a pass child if and only if
\* its side has no placement; a pass child is the only child, holds the
\* board of its node and has the other side to move.  (A node is expanded
\* in the step that makes it current, and the formula follows it through
\* every later step that changes it.)
C10_Original == [][C10_OriginalStep]_vars

\* what the amended C10 says of one step
C10_Step ==
    /\ Expanding =>
          NodePassIff(nodes', current') \/ EndedAt(nodes', current')
    /\ \A id \in Touched(nodes, nodes') :
          NodePassIff(nodes', id) \/ EndedAt(nodes', id)
    /\ \A id \in DOMAIN nodes' : NodePassAlone(nodes', id)
    /\ C10_GameStep

\* C10 (amended): every node that extend_tree has expanded, and every state
\* that gen_next_moves has expanded, has a pass child if and only if its
\* side has no placement, except the node at which the game of the Engine
\* ended (entered by Pass, no placement for its side either): Pass removes
\* its pass child again, so it has no child.  A pass child is the only
\* child, holds the board of its node and has the other side to move.
C10_PassEdge == [][C10_Step]_vars

\* the current node was reached over a pass edge and its side can place; or
\* prepare has passed back to a state whose side can place
C10_Witness ==
    \/ /\ pc = "engine"
       /\ current # root
       /\ current[Len(current)] = PassKey
       /\ any_child(nodes, current)
       /\ ~has_none_key(nodes, current)
       /\ has_none_key(nodes, SubSeq(current, 1, Len(current) - 1))
    \/ /\ pc = "input"
       /\ game_status # <<>>
       /\ game_status[1].kind = "PassBack"
       /\ game_current[Len(game_current)] = PassKey
       /\ has_children(states, game_current)

(***************************************************************************)
(* Claims about the commands of the Engine and of the Game (Spec)          *)
(***************************************************************************)
\* the last call was op, made on the Engine
EngineCall(op) == pc = "engine" /\ call.op = op

\* the last call was op, made on the Game
GameCall(op) == pc \in {"prepare", "input", "again", "exit"} /\ call.op = op

\* the node id was entered over a pass edge and its side has no placement
\* either: the game ended there
TerminalNode(id) ==
    /\ id # root
    /\ id[Len(id)] = PassKey
    /\ ~HasPlacement(nodes[id].board, to_disk(nodes[id].turn))

\* extend_tree (gen_next_moves) on the current node, when it has a child,
\* leaves the tree as it is; and a node that has children had them computed
IdempotentExpansion ==
    /\ (pc = "engine" /\ any_child(nodes, current)) =>
          /\ extend_tree(nodes, current) = nodes
          /\ RunsOf(current) >= 1
    /\ (pc = "engine" /\ any_child(nodes, root)) =>
          extend_tree(nodes, root) = nodes
    /\ (pc \in {"input", "again"} /\ has_children(states, game_current)) =>
          /\ gen_next_moves(states, game_current) = states
          /\ RunsOf(game_current) >= 1

\* C11 as stated: expansion of a node that has a child changes nothing, and
\* no node of the Engine has its children computed more than once.
C11_Original ==
    /\ IdempotentExpansion
    /\ pc = "engine" => \A id \in DOMAIN runs : runs[id] <= 1

\* C11 amended: expansion of a node that has a child changes nothing, and
\* the only nodes of the Engine that have their children computed more than
\* once are the terminal nodes, whose pass edge Pass removed.
C11_ExpandedOnce ==
    /\ IdempotentExpansion
    /\ pc = "engine" =>
          \A id \in DOMAIN runs : runs[id] > 1 => TerminalNode(id)

\* Pass has ended the game a second time at a terminal node, computing its
\* children again
C11_Witness ==
    /\ EngineCall("Pass")
    /\ is_over
    /\ RunsOf(current) = 2
    /\ ~any_child(nodes, current)

\* the step is a Move of the Engine
MoveStep == pc = "engine" /\ call'.op = "Move"

\* the step is a Move, the game not over, to a cell the current node has a
\* child for
MoveAccepted ==
    MoveStep /\ ~is_over /\ call'.key \in DOMAIN nodes[current].children

\* the step is a Move to a cell the current node has no child for
MoveRefused == MoveStep /\ call'.key \notin DOMAIN nodes[current].children

\* the step is Game::place at a position the current state has no child for
PlaceRefused ==
    /\ pc = "input"
    /\ call'.op = "place"
    /\ call'.key \notin DOMAIN states[game_current].children

\* what C12 says of one step
C12_Step ==
    MoveAccepted =>
        LET prev == nodes[current]
            r == try_move(prev.board, call'.key[1], to_disk(prev.turn))
        IN  /\ current' = prev.children[call'.key]
            /\ r.result = "Ok"
            /\ nodes'[current'].board = r.work
            /\ nodes'[current'].turn = OtherSide(prev.turn)
            /\ any_child(nodes', current')

\* C12: a Move, the game not over, to a cell the current node has a child
\* for makes that child the current node; its board is what try_move returns
\* on the previous board at that cell for the previous side, its side is the
\* opponent, and it has at least one child.
C12_MoveAdvances == [][C12_Step]_vars

\* a Move has entered a node below the first level and found two or more
\* placements for the opponent, none of them played yet
C12_Witness ==
    /\ EngineCall("Move")
    /\ call.accepted
    /\ Len(current) >= 2
    /\ current[Len(current)] = call.key
    /\ num_of_children(nodes, current) >= 2
    /\ ~has_none_key(nodes, current)
    /\ \A k \in DOMAIN nodes[current].children :
          ~any_child(nodes, nodes[current].children[k])

\* what C13 says of one step, as stated
C13_OriginalStep ==
    /\ MoveRefused =>
          /\ nodes' = nodes
          /\ current' = current
          /\ is_over' = is_over
          /\ status' # <<>> /\ status'[1] = "Can't place there! "
    /\ PlaceRefused =>
          /\ states' = states
          /\ game_current' = game_current
          /\ pc' = "input"

\* C13 as stated: a Move (a place) to a cell the current node has no child
\* for leaves the tree, the current node and the game-over flag as they
\* were, and the engine reports "Can't place there! " (place returns false:
\* the loop stays at the prompt).
C13_Original == [][C13_OriginalStep]_vars

\* what C13 says of one step, amended
C13_Step ==
    /\ MoveRefused =>
          /\ nodes' = nodes
          /\ current' = current
          /\ is_over' = is_over
          /\ status' = IF is_over
                       THEN <<"Game is over! ">>
                       ELSE append_turn_to_status(<<"Can't place there! ">>,
                                                  nodes[current].turn)
    /\ PlaceRefused =>
          /\ states' = states
          /\ game_current' = game_current
          /\ pc' = "input"

\* C13 amended: the same, the report being made when the game is not over;
\* when it is over the status stays "Game is over! ".
C13_RefusedMove == [][C13_Step]_vars

\* a Move was refused at a node that has only the pass child
C13_Witness ==
    /\ EngineCall("Move")
    /\ ~call.accepted
    /\ ~is_over
    /\ has_none_key(nodes, current)
    /\ status[1] = "Can't place there! "

\* C14 as stated: when a Move was accepted and on the new board neither
\* side has a placement, the engine is in the game-over state.
C14_Original ==
    (/\ EngineCall("Move")
     /\ call.accepted
     /\ ~HasPlacement(nodes[current].board, Black)
     /\ ~HasPlacement(nodes[current].board, White)) =>
        is_over /\ status = <<"Game is over! ">>

\* the step is a Pass of the Engine
PassStep == pc = "engine" /\ call'.op = "Pass"

\* the step is Pass at a node without pass child
PassRefused == PassStep /\ PassKey \notin DOMAIN nodes[current].children

\* the step is Pass, the game not over, at a node with a pass child
PassAccepted ==
    PassStep /\ ~is_over /\ PassKey \in DOMAIN nodes[current].children

\* Pass changes the current node only to the pass child of the node it is
\* made on
PassAlongEdge ==
    (PassStep /\ current' # current) =>
        /\ PassKey \in DOMAIN nodes[current].children
        /\ current' = nodes[current].children[PassKey]

\* what C15 says of one step, as stated
C15_OriginalStep ==
    /\ PassRefused =>
          /\ nodes' = nodes
          /\ current' = current
          /\ status' # <<>> /\ status'[1] = "Can't pass! "
    /\ PassAlongEdge

\* C15 as stated: Pass at a node without pass child leaves the current node
\* and the tree as they were and reports "Can't pass! "; Pass changes the
\* current node only to the pass child of the node it was made on.
C15_Original == [][C15_OriginalStep]_vars

\* what C15 says of one step, amended
C15_Step ==
    /\ PassRefused =>
          /\ nodes' = nodes
          /\ current' = current
          /\ is_over' = is_over
          /\ status' = IF is_over
                       THEN <<"Game is over! ">>
                       ELSE append_turn_to_status(<<"Can't pass! ">>,
                                                  nodes[current].turn)
    /\ PassAlongEdge

\* C15 amended: the same, the report being made when the game is not over;
\* when it is over the status stays "Game is over! ".
C15_PassEdgeOnly == [][C15_Step]_vars

\* Pass was refused at an expanded node whose side has placements
C15_Witness ==
    /\ EngineCall("Pass")
    /\ ~call.accepted
    /\ ~is_over
    /\ current # root
    /\ num_of_children(nodes, current) >= 2
    /\ status[1] = "Can't pass! "

\* what C16 says of one step
C16_Step ==
    PassAccepted =>
        LET prev == nodes[current]
        IN  /\ current' = prev.children[PassKey]
            /\ nodes'[current'].board = prev.board
            /\ nodes'[current'].turn = OtherSide(prev.turn)
            /\ current' \in DOMAIN runs' /\ runs'[current'] >= 1
            /\ IF HasPlacement(prev.board, to_disk(OtherSide(prev.turn)))
               THEN /\ ~is_over'
                    /\ any_child(nodes', current')
                    /\ ~has_none_key(nodes', current')
                    /\ status' = append_turn_to_status(
                                     <<>>, OtherSide(prev.turn))
               ELSE /\ is_over'
                    /\ status' = <<"Game is over! ">>
                    /\ ~any_child(nodes', current')

\* C16: an accepted Pass makes the pass child current (the board of the node
\* passed at, the other side to move) and expands it.  When its side has no
\* placement either, the game is over: is_over holds, the status is
\* "Game is over! " and the node is left without children; otherwise the
\* game goes on, the node has its placements as children and the status
\* names the side to move.
C16_PassAdvances == [][C16_Step]_vars

\* Pass has ended the game: both sides had to pass
C16_Witness ==
    /\ EngineCall("Pass")
    /\ call.accepted
    /\ is_over
    /\ current[Len(current)] = PassKey
    /\ DOMAIN nodes[get_parent(nodes, current)[1]].children = {PassKey}
    /\ ~any_child(nodes, current)

\* the calls made since the latest accepted placement are ops
AfterPlacement(ops) == trail # <<>> /\ trail.then = ops

\* C17: after an accepted Move followed at once by Undo, the current board
\* and the side to move are those the Move was made on.
C17_MoveUndo ==
    (pc = "engine" /\ AfterPlacement(<<"Undo">>)) =>
        /\ nodes[current].board = trail.board
        /\ nodes[current].turn = trail.side

\* Undo has taken back a Move made below the root
C17_Witness ==
    /\ EngineCall("Undo")
    /\ AfterPlacement(<<"Undo">>)
    /\ current # root
    /\ nodes[current].board = trail.board

\* C18 as stated: after an accepted place followed by prepare, undo and
\* prepare, the current board and the side to move are those place was made
\* on.
C18_Original ==
    (GameCall("prepare")
        /\ AfterPlacement(<<"prepare", "undo", "prepare">>)) =>
        /\ states[game_current].board = trail.board
        /\ states[game_current].side = trail.side

\* what C19 says of one step
C19_Step ==
    /\ (pc = "engine" /\ call'.op = "Undo" /\ current = root) =>
          /\ get_parent(nodes, current) = <<>>
          /\ nodes' = nodes
          /\ current' = root
          /\ is_over' = is_over
          /\ ~is_over'
          /\ status' = append_turn_to_status(<<"Couldn't undo! ">>,
                                             nodes[current].turn)
          /\ (call.op = "Undo" /\ ~call.accepted) =>
                UNCHANGED <<engineVars, call>>
    /\ (pc = "input" /\ call'.op = "undo" /\ game_current = root) =>
          /\ State_get_parent(states, game_current) = <<>>
          /\ states' = states
          /\ game_current' = root

\* C19: Undo at the root leaves the tree, the current node (its board and
\* side) and the flag as they were and reports "Couldn't undo! " and the
\* turn; a further Undo there changes nothing at all.  Game::undo at the
\* root changes nothing.
C19_UndoAtRoot == [][C19_Step]_vars

\* Undo was called at the root of a tree in which Moves had been made
C19_Witness ==
    /\ EngineCall("Undo")
    /\ ~call.accepted
    /\ current = root
    /\ status[1] = "Couldn't undo! "
    /\ \E id \in DOMAIN nodes : Len(id) >= 2

\* C20 as stated: after Undo the current node is not a node whose only
\* child is the pass child.
C20_Original ==
    /\ EngineCall("Undo") => DOMAIN nodes[current].children # {PassKey}
    /\ (GameCall("undo") /\ pc = "prepare") =>
          DOMAIN states[game_current].children # {PassKey}

(***************************************************************************)
(* Claims about Game::prepare (SpecFull)                                   *)
(***************************************************************************)
\* the disks of the lib.rs board b on the cells a1..h8, as a board.rs board
LibBoard(b) == [disks |-> LibCells(b), stack |-> <<>>]

\* every cell a1..h8 of the lib.rs board b holds a disk
LibFull(b) == DOMAIN LibCells(b) = Coords

\* the step is Game::prepare
PrepareStep == pc = "prepare" /\ call'.op = "prepare"

\* what C21 says of one step
C21_Step ==
    PrepareStep =>
        LET n == states[game_current]
            full == LibFull(n.board)
            mine == HasPlacement(LibBoard(n.board), to_disk(n.side))
            theirs == HasPlacement(LibBoard(n.board),
                                   to_disk(OtherSide(n.side)))
            st == game_status'[1]
        IN  /\ st.kind \in {"GameOver", "PassBack", "Continue"}
            /\ st.kind = "GameOver" <=> (full \/ (~mine /\ ~theirs))
            /\ st.kind = "PassBack" <=> (~full /\ ~mine /\ theirs)
            /\ st.kind = "PassBack" =>
                  /\ st.side = OtherSide(n.side)
                  /\ State_get_child(states', game_current, PassKey)
                        = <<game_current'>>
                  /\ states'[game_current'].side = OtherSide(n.side)
            /\ st.kind = "Continue" <=> (mine /\ ~full)
            /\ st.kind = "Continue" =>
                  /\ st.side = n.side
                  /\ game_current' = game_current

\* C21: Game::prepare on a state with board B and side s returns GameOver
\* iff B is full or neither side has a placement on B; PassBack with the
\* opponent iff B is not full, s has no placement and the opponent has one,
\* the current state then being the pass child with the opponent to move;
\* Continue with s iff s has a placement and B is not full, the current
\* state being left as it is.
C21_PrepareClassifies == [][C21_Step]_vars

\* prepare has returned GameOver on a full board
C21_Witness ==
    /\ GameCall("prepare")
    /\ pc = "again"
    /\ game_status[1].kind = "GameOver"
    /\ LibFull(states[game_current].board)

\* the disks of colour disk on the cells a1..h8 of the lib.rs board b
DisksOf(b, disk) ==
    Cardinality({c \in Coords : LibAt(b, c) = disk})

\* C22: the counts in the status prepare returns are the numbers of Black
\* and of White disks on the board of the state current at its return, so
\* their sum is the number of occupied cells.
C22_CountsOfCurrent ==
    GameCall("prepare") =>
        LET b == states[game_current].board
            st == game_status[1]
        IN  /\ st.black = DisksOf(b, Black)
            /\ st.white = DisksOf(b, White)
            /\ st.black + st.white = Cardinality(DOMAIN LibCells(b))

\* prepare has returned GameOver after two forced passes, on a board that
\* is not full
C22_Witness ==
    /\ GameCall("prepare")
    /\ game_status[1].kind = "GameOver"
    /\ Len(game_current) >= 2
    /\ game_current[Len(game_current)] = PassKey
    /\ game_current[Len(game_current) - 1] = PassKey
    /\ ~LibFull(states[game_current].board)
    /\ game_status[1].black + game_status[1].white < 64

(***************************************************************************)
(* Claims about the session and the tree (Spec)                            *)
(***************************************************************************)
\* what C23 says of one step
C23_Step ==
    /\ (pc = "engine" /\ call'.op = "Init") =>
          /\ current' = root
          /\ InitialPosition(nodes'[root].board)
          /\ nodes'[root].turn = Dark
          /\ ~is_over'
          /\ any_child(nodes', root)
          /\ status' = <<"Game start! ", "Black's turn">>
          /\ \A id \in DOMAIN nodes :
                /\ id \in DOMAIN nodes'
                /\ nodes'[id].board = nodes[id].board
                /\ nodes'[id].turn = nodes[id].turn
                /\ nodes'[id].parent = nodes[id].parent
                /\ any_child(nodes, id) =>
                      nodes'[id].children = nodes[id].children
          /\ any_child(nodes, root) => nodes' = nodes
    /\ (pc = "again" /\ call'.op = "new_game") =>
          /\ game_current' = root
          /\ LibInitialPosition(states'[root].board)
          /\ states'[root].side = Dark
          /\ has_children(states', root)
          /\ states' = states

\* C23: Init (new_game) makes the root the current node: its board is the
\* starting position with Dark to move, the game is not over, the root has
\* its children and the status of the Engine is "Game start! Black's turn";
\* the nodes that were in the tree stay in it as they were.
C23_InitResets == [][C23_Step]_vars

\* Init was called when the game was over; the node it ended at is still in
\* the tree
C23_Witness ==
    /\ EngineCall("Init")
    /\ call.over
    /\ current = root
    /\ ~is_over
    /\ \E id \in DOMAIN nodes : TerminalNode(id)

\* the board and the side to move after the placements and passes p[i],
\* p[i + 1], ... made from board b with side to move, every board computed
\* by try_move; ok is false when a placement fails
RECURSIVE ReplayNet(_, _, _, _)
ReplayNet(b, side, p, i) ==
    IF i > Len(p)
    THEN [ok |-> TRUE, board |-> b, side |-> side]
    ELSE IF p[i] = PassKey
         THEN ReplayNet(b, OtherSide(side), p, i + 1)
         ELSE LET r == try_move(b, p[i][1], to_disk(side))
              IN  IF r.result = "Ok"
                  THEN ReplayNet(r.work, OtherSide(side), p, i + 1)
                  ELSE [ok |-> FALSE, board |-> b, side |-> side]

\* what C24 says of one step
C24_Step ==
    (pc = "engine" /\ call'.op \in {"Init", "Move", "Pass", "Undo"}) =>
        \A r \in {ReplayNet(Board_init(Board_new), Dark, net', 1)} :
            /\ r.ok
            /\ nodes'[current'].board = r.board
            /\ nodes'[current'].turn = r.side
            /\ \A id \in DOMAIN runs :
                  id \in DOMAIN nodes' /\ nodes'[id] = nodes[id]

\* C24: after every Init, Move, Pass and Undo of the Engine the current
\* board and side to move are those obtained by replaying from the starting
\* position the accepted placements and passes not undone, every board
\* computed afresh by try_move; and a node whose children were computed
\* before the call is the same after it (board, side and child keys), so
\* entering it again shows what the first visit showed.
C24_CacheIsReplay == [][C24_Step]_vars

\* a Move has entered again, after Undo, a node from which the game had
\* been played on
C24_Witness ==
    /\ EngineCall("Move")
    /\ call.accepted
    /\ Len(current) >= 2
    /\ net = current
    /\ \E k \in DOMAIN nodes[current].children :
          any_child(nodes, nodes[current].children[k])

(***************************************************************************)
(* Claims about position.rs (SpecPosition).                                *)
(***************************************************************************)
ValidIndex(v) == v.index \in 0 .. (BoardSize - 1)

ValidChar(c) == Char_a <= c /\ c <= Char_h

ValidNumber(r) == 1 <= r /\ r <= BoardSize

\* C25: Column::new of a character outside 'a'..'h' and Row::new of a number
\* outside 1..8 fail with the out-of-bounds panic and produce no value, and
\* so does Position::new when either is out of range; every Column, Row and
\* Position built, and every Column or Row held after an offset, has its
\* indices in 0..7.
C25_RangeChecked ==
    /\ last.op = "Column::new" =>
          IF ValidChar(last.arg)
          THEN ~Panicked(last.result) /\ ValidIndex(last.result)
          ELSE last.result = Panic("index out of bounds for Column")
    /\ last.op = "Row::new" =>
          IF ValidNumber(last.arg)
          THEN ~Panicked(last.result) /\ ValidIndex(last.result)
          ELSE last.result = Panic("index out of bounds for Row")
    /\ last.op = "Position::new" =>
          IF ValidChar(last.arg[1]) /\ ValidNumber(last.arg[2])
          THEN /\ ~Panicked(last.result)
               /\ ValidIndex(Position_coordinate(last.result)[1])
               /\ ValidIndex(Position_coordinate(last.result)[2])
          ELSE last.result \in {Panic("index out of bounds for Column"),
                                Panic("index out of bounds for Row")}
    /\ \A kind \in {"Column", "Row"} :
          Held(kind) # <<>> => ValidIndex(Held(kind)[1])

\* Column::new('i') has panicked
C25_Witness ==
    /\ last.op = "Column::new"
    /\ last.arg = Char_h + 1
    /\ Panicked(last.result)

\* old + d stays on the board (computed without leaving the i32 range)
OnBoard(old, d) == -old <= d /\ d <= (BoardSize - 1) - old

\* C26 as stated: every offset of a Column or Row returns Some(component
\* with index old + d) when 0 <= old + d <= 7 and None otherwise, and an
\* offset of 0 returns the same component.
C26_Original ==
    last.op \in {"Column::add", "Row::add"} =>
        /\ ~Panicked(last.result)
        /\ IF OnBoard(last.self.index, last.arg)
           THEN last.result =
                    Returned(<<[index |-> last.self.index + last.arg]>>)
           ELSE last.result = Returned(<<>>)
        /\ last.arg = 0 => last.result = Returned(<<last.self>>)

\* C27: for c in 'a'..'h' and r in 1..8, Position::new(c, r).coordinate() is
\* the Column with index c - 'a' and the Row with index r - 1, the Position
\* equals Position::from((Column::new(c), Row::new(r))), and it is unequal
\* to the Position of every other pair.
C27_RoundTrip ==
    (/\ last.op = "Position::new"
     /\ ValidChar(last.arg[1])
     /\ ValidNumber(last.arg[2])) =>
        LET c == last.arg[1]
            r == last.arg[2]
        IN  /\ ~Panicked(last.result)
            /\ Column_index(Position_coordinate(last.result)[1]) = c - Char_a
            /\ Row_index(Position_coordinate(last.result)[2]) = r - 1
            /\ Position_eq(last.result,
                           Position_from_pair(Column_new(c), Row_new(r)))
            /\ \A c2 \in Char_a .. Char_h, r2 \in 1 .. BoardSize :
                  Position_eq(last.result, Position_new(c2, r2))
                      <=> (c2 = c /\ r2 = r)

\* Position::new('h', 8) was built
C27_Witness ==
    /\ last.op = "Position::new"
    /\ last.arg = <<Char_h, BoardSize>>
    /\ ~Panicked(last.result)
    /\ Position_coordinate(last.result) =
           <<[index |-> BoardSize - 1], [index |-> BoardSize - 1]>>

(***************************************************************************)
(* Claim about Board::place (SpecBoard).                                   *)
(***************************************************************************)
\* C28 as stated: Board::place on a cell that holds a disk returns the
\* CellOccupied rejection, without panicking, and leaves the board as it
\* was, the disk at the cell included.
C28_Original ==
    (last.op = "place" /\ get_disk(last.self, last.coord) # None) =>
        /\ last.result = "CellOccupied"
        /\ last.work = last.self
        /\ get_disk(last.work, last.coord) = get_disk(last.self, last.coord)

(***************************************************************************)
(* Claims about the shape of the tree (Spec).                              *)
(***************************************************************************)
\* the depth of a node is the number of keys on the path from the root
Depth(id) == Len(id)

\* C29: in the tree of the Engine and in the tree of the Game, every child,
\* reached by a placement or by a pass, has the side to move opposite to
\* its parent's, and a node at depth d has Dark to move iff d is even.
C29_TurnsAlternate ==
    /\ \A id \in DOMAIN nodes :
          /\ \A k \in DOMAIN nodes[id].children :
                nodes[nodes[id].children[k]].turn # nodes[id].turn
          /\ (nodes[id].turn = Dark) <=> (Depth(id) % 2 = 0)
          /\ nodes[id].turn \in Side
    /\ \A id \in DOMAIN states :
          /\ \A k \in DOMAIN states[id].children :
                states[states[id].children[k]].side # states[id].side
          /\ (states[id].side = Dark) <=> (Depth(id) % 2 = 0)
          /\ states[id].side \in Side

\* the Engine has passed and the node entered has a child by placement: the
\* side alternates along a pass edge and along the placement edge below it
C29_Witness ==
    /\ EngineCall("Pass")
    /\ call.accepted
    /\ current # root
    /\ current[Len(current)] = PassKey
    /\ nodes[current].turn # nodes[get_parent(nodes, current)[1]].turn
    /\ \E k \in DOMAIN nodes[current].children :
          /\ k # PassKey
          /\ nodes[nodes[current].children[k]].turn # nodes[current].turn

\* every child a node of the Engine's tree holds is alive and its parent
\* reference resolves to that node; the root has no parent
NodeLinks(t) ==
    /\ root \in DOMAIN t
    /\ get_parent(t, root) = <<>>
    /\ \A id \in DOMAIN t :
          \A k \in DOMAIN t[id].children :
             /\ t[id].children[k] \in DOMAIN t
             /\ get_parent(t, t[id].children[k]) = <<id>>

\* the same in the tree of the Game
StateLinks(t) ==
    /\ root \in DOMAIN t
    /\ State_get_parent(t, root) = <<>>
    /\ \A id \in DOMAIN t :
          \A k \in DOMAIN t[id].children :
             /\ t[id].children[k] \in DOMAIN t
             /\ State_get_parent(t, t[id].children[k]) = <<id>>

C30_Step ==
    /\ pc = "engine" =>
          /\ call.op = "none" => NodeLinks(nodes)
          /\ NodeLinks(nodes')
          \* a node created by the step has no children
          /\ \A id \in DOMAIN nodes' \ DOMAIN nodes :
                nodes'[id].children = <<>>
    /\ pc \in {"prepare", "input", "again", "exit"} =>
          /\ call.op = "none" => StateLinks(states)
          /\ StateLinks(states')
          \* nor has a state created by the step, but for the pass child
          \* that prepare has created, entered and then expanded
          /\ \A id \in DOMAIN states' \ DOMAIN states :
                \/ states'[id].children = <<>>
                \/ /\ call'.op = "prepare"
                   /\ id = Append(game_current, PassKey)
                   /\ IsPrefix(id, game_current')
    /\ (pc = "engine" /\ call'.op = "Undo" /\ current # root) =>
          /\ current' # current
          /\ \E k \in DOMAIN nodes[current'].children :
                nodes[current'].children[k] = current
          /\ status'[1] = "Undid! "
          /\ nodes' = nodes
    /\ (pc = "input" /\ call'.op = "undo" /\ game_current # root) =>
          /\ game_current' # game_current
          /\ \E k \in DOMAIN states[game_current'].children :
                states[game_current'].children[k] = game_current
          /\ states' = states

\* C30: in the first state and after every call, in the tree of the Engine
\* and in the tree of the Game, every child's parent reference resolves to
\* the node that holds it and the root has no parent; a node created by a
\* call has no children (until it is entered and expanded); and Undo at a
\* current node other than the root always moves to the node that holds
\* the current one as a child, the tree unchanged.
C30_LinksConsistent == [][C30_Step]_vars

\* Undo has left a node entered by Pass for the node that holds it
C30_Witness ==
    /\ EngineCall("Undo")
    /\ call.accepted
    /\ current # root
    /\ has_none_key(nodes, current)
    /\ get_parent(nodes, nodes[current].children[PassKey]) = <<current>>
    /\ get_parent(nodes, current) # <<>>

(***************************************************************************)
(* Claims about the two boards side by side (SpecBoard).                   *)
(***************************************************************************)
\* the board.rs board and the lib.rs board hold the same disk at every one
\* of the 64 cells
SameDisks(b, l) == \A c \in Coords : At(b, c) = LibAt(l, c)

\* C31: on boards holding the same disks, for every cell and side,
\* Board::try_move of board.rs returns Ok exactly when Board::try_place of
\* lib.rs returns Some, and the two boards returned then hold the same disk
\* at every one of the 64 cells.
C31_FlipsAgree ==
    (Called /\ SameDisks(last.self, last.lself)) =>
        /\ (last.result = "Ok") <=> (last.lresult = "Some")
        /\ last.result = "Ok" => SameDisks(last.work, last.lwork)
        /\ last.lresult \in {"Some", "None"}

\* both implementations have accepted a placement on a board met in play
\* that flipped disks in more than one direction
C31_Witness ==
    /\ Called
    /\ SameDisks(last.self, last.lself)
    /\ NumDisks(last.self) > 4
    /\ last.result = "Ok"
    /\ last.lresult = "Some"
    /\ last.num_flip >= 2
    /\ SameDisks(last.work, last.lwork)

(***************************************************************************)
(* Claim about flip, abort and commit (SpecFlip).                          *)
(***************************************************************************)
\* C32: after any number of flips, abort leaves every cell with the colour
\* it had at the latest init, commit or abort (so it turns back the flips
\* made since, and no flip committed before) and leaves the stack empty;
\* commit keeps the disks as the flips left them, empties the stack and
\* returns the number of flips made since the latest commit or abort; and
\* flip turns the one disk and pushes its cell.
C32_AbortAndCommit ==
    pc = "flip" =>
        /\ last.op = "abort" =>
              /\ board.disks = last.base
              /\ board.stack = <<>>
        /\ last.op = "commit" =>
              /\ board.disks = last.self.disks
              /\ board.stack = <<>>
              /\ last.result = Len(last.self.stack)
              /\ last.base = board.disks
        /\ last.op = "flip" =>
              /\ Len(board.stack) = last.flips
              /\ \E c \in DOMAIN board.disks :
                    /\ board.stack = Append(last.self.stack, c)
                    /\ board.disks =
                          [last.self.disks EXCEPT ![c] = Opponent(@)]
        /\ last.op \in {"abort", "commit"} => last.flips = 0

\* abort has turned back flips made after a commit that had changed the
\* board: the committed flips are kept
C32_Witness ==
    /\ pc = "flip"
    /\ last.op = "abort"
    /\ Len(last.self.stack) >= 2
    /\ last.self.disks # board.disks
    /\ board.disks = last.base
    /\ last.base # Board_init(Board_new).disks

(***************************************************************************)
(* Claims about the Engine's flag and status (Spec).                       *)
(***************************************************************************)
\* Init has been called: it expands the root, which nothing else does, and
\* the root keeps its children
Started == pc = "engine" /\ any_child(nodes, root)

\* C33: once Init has been called, is_over is true if and only if the
\* current node has no children; so while is_over is false the current node
\* is expanded.
C33_FlagMatchesTree ==
    Started => (is_over <=> ~any_child(nodes, current))

\* the game is over at a node that lost its pass child, and the flag is set
C33_Witness ==
    /\ Started
    /\ is_over
    /\ ~any_child(nodes, current)
    /\ TerminalNode(current)

\* the text append_pass_to_status / append_turn_to_status write for a side
MustPass(turn) == IF turn = Dark THEN "Black must pass" ELSE "White must pass"

TurnOf(turn) == IF turn = Dark THEN "Black's turn" ELSE "White's turn"

\* the only child of the node is the pass child
PassOnly(t, id) == DOMAIN t[id].children = {PassKey}

\* C34 as stated: after every action that follows Init, while the game is
\* not over, the status ends with "<side> must pass" when the only child of
\* the current node is the pass child and with "<side>'s turn" otherwise,
\* <side> being the side to move at the current node.
C34_Original ==
    (Started /\ ~is_over) =>
        status[Len(status)] =
            IF PassOnly(nodes, current)
            THEN MustPass(nodes[current].turn)
            ELSE TurnOf(nodes[current].turn)

C35_Step ==
    (pc = "engine" /\ is_over) =>
        /\ call'.op \in {"Move", "Pass"} =>
              /\ UNCHANGED <<nodes, current, status, is_over>>
              /\ ~call'.accepted
        /\ call'.op = "Undo" =>
              /\ get_parent(nodes, current) # <<>>
              /\ current' = get_parent(nodes, current)[1]
              /\ ~is_over'
              /\ nodes' = nodes
        /\ call'.op = "Init" => ~is_over' /\ current' = root
        /\ ~is_over' => call'.op \in {"Undo", "Init"}
        /\ status = <<"Game is over! ">>

\* C35: while is_over is true, every Move and every Pass leaves the current
\* node, the tree, the status and is_over unchanged; only Undo and Init
\* clear is_over, and Undo then moves to the parent of the current node.
C35_OverIsAbsorbing == [][C35_Step]_vars

\* a Move was made while the game was over, and the game is still over at
\* the same node
C35_Witness ==
    /\ EngineCall("Move")
    /\ call.over
    /\ is_over
    /\ TerminalNode(current)
    /\ status = <<"Game is over! ">>

(***************************************************************************)
(* Claim about Game::prepare called twice (SpecApi).                       *)
(***************************************************************************)
C36_OriginalStep ==
    (pc = "api" /\ call.op = "prepare" /\ call'.op = "prepare") =>
        /\ game_status' = game_status
        /\ game_current' = game_current
        /\ states' = states

\* C36 as stated: a call of prepare that follows a call of prepare, with
\* no place or undo in between, returns the status the first one returned
\* and changes neither the current state nor the tree.
C36_Original == [][C36_OriginalStep]_vars

(***************************************************************************)
(* Claim about the length of a game (SpecPlay).                            *)
(***************************************************************************)
\* the node lies behind a pass edge
BehindPass(id) == id # root /\ id[Len(id)] = PassKey

\* what is left to play at a node: two for every empty cell, and one more
\* while the node has not been entered by a pass
Measure(t, id) ==
    2 * (BoardSize * BoardSize - NumDisks(t[id].board))
        + (IF BehindPass(id) THEN 0 ELSE 1)

\* neither side has a placement on the board
NoPlacement(b) == ~HasPlacement(b, Black) /\ ~HasPlacement(b, White)

C37_Step ==
    (pc = "engine" /\ call'.op \in {"Move", "Pass"} /\ call'.accepted) =>
        /\ call'.op = "Move" =>
              NumDisks(nodes'[current'].board)
                  = NumDisks(nodes[current].board) + 1
        /\ call'.op = "Pass" =>
              /\ nodes'[current'].board = nodes[current].board
              /\ ~BehindPass(current)
        /\ Measure(nodes', current') < Measure(nodes, current)
        /\ Measure(nodes', current') >= 0
        /\ Len(Placements(current')) = NumDisks(nodes'[current'].board) - 4
        /\ Len(Placements(current')) <= BoardSize * BoardSize - 4
        /\ is_over' <=> NoPlacement(nodes'[current'].board)
                           /\ call'.op = "Pass"
        /\ ~is_over' => any_child(nodes', current')

\* C37: every accepted Move adds exactly one disk to the current board,
\* every accepted Pass leaves the board and is made from a node that was
\* not itself entered by a pass, so every accepted Move or Pass lowers a
\* measure that is never negative and a game has at most 60 Moves; the
\* game is over after the Pass that enters a node where neither side has a
\* placement, and until then the current node has a child to go on with.
C37_GamesEnd == [][C37_Step]_vars

\* the sixtieth Move has filled the board
C37_Witness ==
    /\ EngineCall("Move")
    /\ call.accepted
    /\ Len(Placements(current)) = BoardSize * BoardSize - 4
    /\ NumDisks(nodes[current].board) = BoardSize * BoardSize

(***************************************************************************)
(* Claims about the disks of the boards (SpecBoard).                       *)
(***************************************************************************)
\* the disks of a colour on the lib.rs board
LibCountOf(l, disk) == Cardinality({c \in Coords : LibAt(l, c) = disk})

\* C38: when try_move succeeds with k flipped disks, k is at least 1, the
\* returned board holds one disk more than the input, the mover's colour
\* k + 1 more and the opponent's colour k fewer; the same holds of the
\* board try_place returns.
C38_DiskAccounting ==
    (Called /\ last.result = "Ok") =>
        LET k == last.num_flip
            opp == Opponent(last.disk)
        IN  /\ k >= 1
            /\ NumDisks(last.work) = NumDisks(last.self) + 1
            /\ CountOf(last.work, last.disk)
                  = CountOf(last.self, last.disk) + k + 1
            /\ CountOf(last.work, opp) = CountOf(last.self, opp) - k
            /\ CountOf(last.work, opp) >= 0
            /\ last.lresult = "Some" =>
                  /\ LibCountOf(last.lwork, last.disk)
                        = LibCountOf(last.lself, last.disk) + k + 1
                  /\ LibCountOf(last.lwork, opp)
                        = LibCountOf(last.lself, opp) - k

\* a successful move has flipped two or more disks and left the opponent
\* with a disk
C38_Witness ==
    /\ Called
    /\ last.result = "Ok"
    /\ last.lresult = "Some"
    /\ last.num_flip >= 2
    /\ CountOf(last.work, Opponent(last.disk))
          = CountOf(last.self, Opponent(last.disk)) - last.num_flip
    /\ CountOf(last.work, Opponent(last.disk)) >= 1

\* C39: every lib.rs board met in play, and every board try_place returns
\* for a cell a1..h8, has all its cells of column or row 0 or 9 empty, and
\* no scan of flip_positions that try_place runs from such a cell builds a
\* Position with an index outside 0..9: try_place never panics (its result
\* is "panic" as soon as one scan leaves the grid, see CollectAll).
C39_BorderEmpty ==
    pc = "test" =>
        /\ LibBorderEmpty(lboard)
        /\ last.op \in {"try_move", "init"} =>
              /\ LibBorderEmpty(last.lself)
              /\ LibBorderEmpty(last.lwork)
        /\ Called =>
              /\ last.lresult \in {"Some", "None"}
              /\ last.pos[1] \in 1 .. BoardSize
              /\ last.pos[2] \in 1 .. BoardSize

\* a disk was placed at a corner, where five of the eight scans read a cell
\* of the border at once, and disks were flipped
C39_Witness ==
    /\ Called
    /\ last.lresult = "Some"
    /\ last.pos[1] \in {1, BoardSize}
    /\ last.pos[2] \in {1, BoardSize}
    /\ LibBorderEmpty(last.lwork)

\* C40 (as stated): every press at a position (x, y) of the board button,
\* 0 <= x, y <= 256, maps to a column index in 0 .. 7 and a row in 1 .. 8:
\* the handler never indexes past the table of column letters and never
\* passes a position outside the 8 x 8 cells to the game.
C40_Original ==
    (pc \in {"click", "aborted"} /\ last.op = "press"
     /\ last.x <= (ButtonSize - 1) * HalfPixels
     /\ last.y <= (ButtonSize - 1) * HalfPixels)
    => /\ ~Panicked(last.result)
       /\ last.result.pos[1] \in 1 .. BoardSize
       /\ last.result.pos[2] \in 1 .. BoardSize

====
